---- MODULE Spec2Model ----
(***************************************************************************)
(* A model of flac-raster's tiling / spatial-index / byte-range query      *)
(* code: SpatialFLACEncoder, SpatialIndex, SpatialFLACStreamer             *)
(* (spatial_encoder.py) and the create-streaming / extract-streaming       *)
(* commands (cli.py).                                                      *)
(*                                                                         *)
(* Geographic coordinates are integers (one unit = one hundredth of a      *)
(* degree in the scenario raster); an affine transform is the 6-tuple      *)
(* <<a, b, c, d, e, f>> with x = a*col + b*row + c, y = d*col + e*row + f. *)
(* A tile payload is modelled by its length in bytes; the compressor's     *)
(* output always holds a stream header, so a payload is never empty.       *)
(***************************************************************************)
EXTENDS Integers, Sequences, FiniteSets, TLC

VARIABLES
    height, width, transform,   \* the input raster (rasterio attributes)
    tile_size,                  \* SpatialFLACEncoder.tile_size / --tile-size
    pc,                         \* position of the running command
    raster_opened,              \* the writer has opened the input raster
    error,                      \* the exception that ended the writer, if any
    first_index,                \* the index an earlier encode_spatial_flac returned
    tiles,                      \* encode_spatial_flac: the planned tiles
    frames,                     \* SpatialFLACEncoder.frames
    bytes_written,              \* SpatialFLACEncoder.bytes_written
    row_start, col_start,       \* create_streaming: loop variables
    frame_id, total_offset,     \* create_streaming: counters
    spatial_index,              \* the index the writer produced
    container, sidecar,         \* what the output path / sidecar path hold
    path_kind,                  \* how the reader was given the path
    http_status,                \* the server's answer to a range request
    tried,                      \* index sources the reader consulted, in order
    load_status,                \* outcome of opening the container
    loaded,                     \* SpatialFLACStreamer.spatial_index / metadata
    requests,                   \* byte ranges the reader asked the container for
    bbox,                       \* the last query bbox
    intersecting,               \* frame ids selected for the last query
    merged,                     \* byte ranges returned for the last query
    extracted,                  \* extract-streaming: the tile it fetched
    dtype,                      \* RasterFLACConverter: the raster's cell type
    data_min, data_max,         \* np.min(data), np.max(data)
    cell,                       \* one cell value of the raster
    normalized,                 \* data_norm for that cell, a fraction
    audio,                      \* the integer sample for that cell
    restored,                   \* the cell _denormalize_from_audio returns
    src_data,                   \* the array src.read() returned
    data_reshaped,              \* the sample stream handed to the compressor
    raster_data,                \* flac_to_tiff: the array rebuilt from the stream
    tile_data,                  \* the array src.read(window=window) returned
    sample_rate, channels       \* the compressor's parameters

vars == <<height, width, transform, tile_size, pc, raster_opened, error, first_index, tiles,
          frames, bytes_written, row_start, col_start, frame_id, total_offset,
          spatial_index, container, sidecar, path_kind, http_status, tried,
          load_status, loaded, requests, bbox, intersecting, merged, extracted,
          dtype, data_min, data_max, cell, normalized, audio, restored,
          src_data, data_reshaped, raster_data, tile_data, sample_rate, channels>>

rasterVars == <<height, width, transform, tile_size>>
encoderVars == <<tiles, frames, bytes_written>>
cliVars == <<row_start, col_start, frame_id, total_offset>>
fileVars == <<container, sidecar>>
readerVars == <<path_kind, http_status, tried, load_status, loaded, requests>>
writerVars == <<raster_opened, error, first_index>>
bandVars == <<src_data, data_reshaped, raster_data, tile_data, sample_rate, channels>>
quantVars == <<dtype, data_min, data_max, cell, normalized, audio, restored, bandVars>>
queryVars == <<bbox, intersecting, merged, extracted>>

----------------------------------------------------------------------------
(* Bounds of the model. *)

MaxHeight == 3
MaxWidth == 3
MaxTileSize == 3
MaxTiles == 4
MaxPayload == 2
MaxFrames == 2
MaxOffset == 2
MaxSize == 3
MaxMetadata == 1
MaxIndexSize == 2
FloatDen == 4
MaxBands == 3

(* North-up transforms: positive pixel width, negative pixel height. *)
Transforms == { <<1, 0, 0, 0, -1, 0>>, <<2, 0, -3, 0, -1, 5>> }

NoIndex == [none |-> TRUE]
NoBox == <<>>

----------------------------------------------------------------------------
(* Helpers *)

Min(a, b) == IF a < b THEN a ELSE b
Max(a, b) == IF a > b THEN a ELSE b

(* Python's range(0, n, step) for n >= 0 and step # 0, as a sequence: *)
(* empty when the step is negative.                                  *)
Range0(n, step) ==
    IF step > 0
    THEN [i \in 1..((n + step - 1) \div step) |-> (i - 1) * step]
    ELSE <<>>

RECURSIVE SumSizes(_)
SumSizes(fs) ==
    IF fs = <<>> THEN 0
    ELSE fs[1].byte_size + SumSizes(Tail(fs))

(* transform * (col, row) *)
AffineApply(T, col, row) ==
    << T[1] * col + T[2] * row + T[3], T[4] * col + T[5] * row + T[6] >>

(* rasterio.windows.Window(col_off, row_off, width, height) *)
Window(c, r, w, h) == [col_off |-> c, row_off |-> r, width |-> w, height |-> h]

(* SpatialFrame(frame_id, bbox, window, byte_offset, byte_size) *)
SpatialFrame(id, bb, win, off, size) ==
    [frame_id |-> id, bbox |-> bb, window |-> win,
     byte_offset |-> off, byte_size |-> size]

(* SpatialIndex(frames, crs, transform): total_bytes is summed once here. *)
SpatialIndex(fs, T) ==
    [frames |-> fs, transform |-> T, total_bytes |-> SumSizes(fs)]

----------------------------------------------------------------------------
(* Tile Grid Planner *)

(* A planner that forgets to clamp the last row / column of tiles. *)
calculate_tiles_unclamped(h, w, ts) ==
    LET rows == Range0(h, ts)
        cols == Range0(w, ts)
        n == Len(cols)
    IN  [k \in 1..(Len(rows) * n) |->
            << rows[((k - 1) \div n) + 1], cols[((k - 1) % n) + 1], ts, ts >>]

(* A planner that loops over columns outside and rows inside. *)
calculate_tiles_colmajor(h, w, ts) ==
    LET rows == Range0(h, ts)
        cols == Range0(w, ts)
        n == Len(rows)
    IN  [k \in 1..(Len(cols) * n) |->
            LET rs == rows[((k - 1) % n) + 1]
                cs == cols[((k - 1) \div n) + 1]
            IN  << rs, cs, Min(rs + ts, h) - rs, Min(cs + ts, w) - cs >>]

(* SpatialFLACEncoder._calculate_tiles: rows outer, columns inner. *)
calculate_tiles(h, w, ts) ==
    LET rows == Range0(h, ts)
        cols == Range0(w, ts)
        n == Len(cols)
    IN  [k \in 1..(Len(rows) * n) |->
            LET rs == rows[((k - 1) \div n) + 1]
                cs == cols[((k - 1) % n) + 1]
                row_end == Min(rs + ts, h)
                col_end == Min(cs + ts, w)
            IN  << rs, cs, row_end - rs, col_end - cs >>]

(* SpatialFLACEncoder._tile_to_bbox *)
tile_to_bbox(row_off, col_off, h, w, T) ==
    LET p == AffineApply(T, col_off, row_off)
        q == AffineApply(T, col_off + w, row_off + h)
    IN  << p[1], q[2], q[1], p[2] >>

(* create_streaming: the bbox from src.window_transform(window). *)
cli_tile_bbox(cs, rs, tw, th, T) ==
    LET origin == AffineApply(T, cs, rs)
        xmin == origin[1]
        ymax == origin[2]
        xmax == xmin + tw * T[1]
        ymin == ymax + th * T[5]
    IN  << xmin, ymin, xmax, ymax >>

----------------------------------------------------------------------------
(* Serialisation of the index *)

(* SpatialFrame.to_dict *)
frame_to_dict(fr) ==
    [frame_id |-> fr.frame_id,
     bbox |-> fr.bbox,
     window |-> [row_off |-> fr.window.row_off, col_off |-> fr.window.col_off,
                 height |-> fr.window.height, width |-> fr.window.width],
     byte_offset |-> fr.byte_offset,
     byte_size |-> fr.byte_size]

(* SpatialIndex.to_dict: total_bytes is not serialised. *)
index_to_dict(idx) ==
    [transform |-> idx.transform,
     frames |-> [k \in DOMAIN idx.frames |-> frame_to_dict(idx.frames[k])]]

(* _load_spatial_index with the window arguments in the order of the *)
(* comment at line 28 (row_off, col_off, height, width).             *)
reconstruct_index_rows_first(data) ==
    SpatialIndex(
        [k \in DOMAIN data.frames |->
            LET fd == data.frames[k]
            IN  SpatialFrame(fd.frame_id, fd.bbox,
                    Window(fd.window.row_off, fd.window.col_off,
                           fd.window.height, fd.window.width),
                    fd.byte_offset, fd.byte_size)],
        data.transform)

(* _load_spatial_index, lines 441-462: frames rebuilt from the parsed JSON. *)
reconstruct_index(data) ==
    SpatialIndex(
        [k \in DOMAIN data.frames |->
            LET fd == data.frames[k]
            IN  SpatialFrame(fd.frame_id, fd.bbox,
                    Window(fd.window.col_off, fd.window.row_off,
                           fd.window.width, fd.window.height),
                    fd.byte_offset, fd.byte_size)],
        data.transform)

(* The output path holds no file. *)
(* A run of bytes of a file: what it holds, which tile, how long, and, *)
(* for the 4-byte length field, the number it encodes; for a tile     *)
(* stream, the bytes its metadata blocks gained after it was written. *)
Segment(kind, id, size, value) ==
    [kind |-> kind, id |-> id, size |-> size, value |-> value]

(* The payloads of the frames fs, laid end to end in list order. *)
tile_segments(fs) ==
    [k \in DOMAIN fs |-> Segment("tile", fs[k].frame_id, fs[k].byte_size, 0)]

NoFile == [format |-> "absent", embedded |-> NoIndex, lp_index |-> NoIndex,
           layout |-> <<>>]

----------------------------------------------------------------------------
(* encode_spatial_flac *)

TileCount(h, w, ts) ==
    IF ts > 0 THEN ((h + ts - 1) \div ts) * ((w + ts - 1) \div ts) ELSE 0

(* Lines 153-170: read the raster, plan the tiles, open the output, reset. *)
(* range() raises ValueError for a zero step, after the raster was read    *)
(* and before the output is opened.                                        *)
EncodeStart ==
    /\ pc = "idle"
    /\ raster_opened' = TRUE
    /\ UNCHANGED first_index
    /\ IF tile_size = 0
       THEN /\ pc' = "failed"
            /\ error' = "ValueError"
            /\ UNCHANGED <<encoderVars, container>>
       ELSE /\ pc' = "encode_tiles"
            /\ tiles' = calculate_tiles(height, width, tile_size)
            /\ bytes_written' = 0
            /\ frames' = <<>>
            /\ container' = [format |-> "flac", embedded |-> NoIndex,
                             lp_index |-> NoIndex, layout |-> <<>>]
            /\ UNCHANGED error
    /\ UNCHANGED <<rasterVars, quantVars, cliVars, spatial_index, sidecar, readerVars, queryVars>>

(* Bookkeeping that takes the offset after the running total was advanced. *)
record_tile_late(fr, written, n) ==
    [fr EXCEPT !.byte_offset = written + n, !.byte_size = n]

(* Lines 213-216: the offset bookkeeping of one written tile. *)
record_tile(fr, written, n) == [fr EXCEPT !.byte_offset = written, !.byte_size = n]

(* Lines 173-218: one iteration of the tile loop; n is the length of the *)
(* payload the compressor returned for the tile, drawn from P.           *)
EncodeTileIn(P) ==
    /\ pc = "encode_tiles"
    /\ Len(frames) < Len(tiles)
    /\ \E n \in P :
        LET i == Len(frames)
            t == tiles[i + 1]
            window == Window(t[2], t[1], t[4], t[3])
            bb == tile_to_bbox(t[1], t[2], t[3], t[4], transform)
            frame == SpatialFrame(i, bb, window, 0, 0)
        IN  /\ frames' = Append(frames, record_tile(frame, bytes_written, n))
            /\ bytes_written' = bytes_written + n
            /\ container' = [container EXCEPT
                               !.layout = Append(@, Segment("tile", i, n, 0))]
    /\ UNCHANGED <<rasterVars, quantVars, pc, writerVars, tiles, cliVars, spatial_index,
                   sidecar, readerVars, queryVars>>

(* Lines 173-210: an iteration in which _encode_tile_to_flac raises; the *)
(* frame was already appended (line 179), nothing is written for it and *)
(* the exception leaves encode_spatial_flac through the with block.      *)
EncodeTileFail ==
    /\ pc = "encode_tiles"
    /\ Len(frames) < Len(tiles)
    /\ LET i == Len(frames)
           t == tiles[i + 1]
           window == Window(t[2], t[1], t[4], t[3])
           bb == tile_to_bbox(t[1], t[2], t[3], t[4], transform)
       IN  frames' = Append(frames, SpatialFrame(i, bb, window, 0, 0))
    /\ pc' = "failed"
    /\ error' = "CompressionError"
    /\ UNCHANGED <<rasterVars, quantVars, raster_opened, first_index, tiles, bytes_written, cliVars,
                   spatial_index, fileVars, readerVars, queryVars>>

(* Lines 305-350: FLAC(str(flac_path)) ... save().  The tags go into the *)
(* metadata blocks of the first stream of the file, which the tile       *)
(* encoder wrote without padding: the blocks grow by m bytes and save()  *)
(* moves every byte behind them up by m.                                 *)
embed_metadata(layout, m) ==
    [layout EXCEPT ![1] = Segment("tile", @.id, @.size + m, m)]

(* Lines 328-331: the bounds attribute, from the first and the last frame. *)
embedded_bounds(fs) ==
    << fs[1].bbox[1], fs[1].bbox[2], fs[Len(fs)].bbox[3], fs[Len(fs)].bbox[4] >>

(* Lines 322-347: the attributes save() writes that a reader consults, *)
(* the index as SpatialIndex.to_dict gives it beside the bounds.       *)
embedded_tags(idx) ==
    [transform |-> index_to_dict(idx).transform,
     frames |-> index_to_dict(idx).frames,
     bounds |-> embedded_bounds(idx.frames)]

(* Lines 220-227 and _embed_metadata_in_flac: build the index, then embed *)
(* it in the file, or write the sidecar when embedding fails.             *)
EncodeFinish ==
    /\ pc = "encode_tiles"
    /\ Len(frames) = Len(tiles)
    /\ pc' = "encoded"
    /\ spatial_index' = SpatialIndex(frames, transform)
    /\ \E embed_ok \in {b \in BOOLEAN : b => frames # <<>>}, m \in 1..MaxMetadata :
        IF embed_ok
        THEN /\ container' = [container EXCEPT
                                !.embedded = embedded_tags(spatial_index'),
                                !.layout = embed_metadata(@, m)]
             /\ UNCHANGED sidecar
        ELSE /\ sidecar' = index_to_dict(spatial_index')
             /\ UNCHANGED container
    /\ UNCHANGED <<rasterVars, quantVars, writerVars, encoderVars, cliVars, readerVars,
                   queryVars>>

----------------------------------------------------------------------------
(* create_streaming (cli.py) *)

(* Lines 668-691: open the raster, start the nested loops; range() raises *)
(* ValueError for a zero step, which ends the command (lines 803-806).    *)
CreateStart ==
    /\ pc = "idle"
    /\ raster_opened' = TRUE
    /\ UNCHANGED first_index
    /\ row_start' = 0
    /\ col_start' = 0
    /\ frame_id' = 0
    /\ total_offset' = 0
    /\ spatial_index' = [transform |-> transform, width |-> width,
                         height |-> height, tile_size |-> tile_size,
                         frames |-> <<>>]
    /\ IF tile_size = 0
       THEN pc' = "failed" /\ error' = "ValueError"
       ELSE pc' = "create_tiles" /\ UNCHANGED error
    /\ UNCHANGED <<rasterVars, quantVars, encoderVars, fileVars, readerVars, queryVars>>

(* Lines 694-695, 748-759: the index entry of the tile at the loop position. *)
cli_frame(rs, cs, id, offset, n, h, w, ts, T) ==
    LET tw == Min(ts, w - cs)
        th == Min(ts, h - rs)
    IN  [frame_id |-> id,
         bbox |-> cli_tile_bbox(cs, rs, tw, th, T),
         window |-> [col_off |-> cs, row_off |-> rs, width |-> tw, height |-> th],
         byte_offset |-> offset,
         byte_size |-> n]

(* Lines 691-763: one iteration of the inner loop, payload length from P. *)
CreateTileIn(P) ==
    /\ pc = "create_tiles"
    /\ tile_size > 0
    /\ row_start < height
    /\ \E n \in P :
        /\ spatial_index' = [spatial_index EXCEPT !.frames =
               Append(@, cli_frame(row_start, col_start, frame_id, total_offset,
                                   n, height, width, tile_size, transform))]
        /\ total_offset' = total_offset + n
    /\ frame_id' = frame_id + 1
    /\ IF col_start + tile_size < width
       THEN /\ col_start' = col_start + tile_size
            /\ UNCHANGED row_start
       ELSE /\ col_start' = 0
            /\ row_start' = row_start + tile_size
    /\ UNCHANGED <<rasterVars, quantVars, pc, writerVars, encoderVars, fileVars, readerVars,
                   queryVars>>

(* Lines 709-744: an iteration in which the tile's conversion raises; the *)
(* exception ends the command (lines 803-806) before anything is written. *)
CreateTileFail ==
    /\ pc = "create_tiles"
    /\ tile_size > 0
    /\ row_start < height
    /\ pc' = "failed"
    /\ error' = "CompressionError"
    /\ UNCHANGED <<rasterVars, quantVars, raster_opened, first_index, encoderVars, cliVars,
                   spatial_index,
                   fileVars, readerVars, queryVars>>

(* Lines 771-780: the file create_streaming writes for the index idx, *)
(* whose JSON text is index_size bytes long.                          *)
streaming_file(idx, index_size) ==
    [format |-> "length_prefixed", embedded |-> NoIndex, lp_index |-> idx,
     layout |-> << Segment("length", 0, 4, index_size),
                   Segment("index", 0, index_size, 0) >>
                \o tile_segments(idx.frames)]

(* Lines 768-784: write [4-byte length][JSON index][tile payloads], then *)
(* report; the average tile size divides by the number of tiles, which   *)
(* is zero when a negative tile size left both loops empty.              *)
CreateFinish ==
    /\ pc = "create_tiles"
    /\ tile_size < 0 \/ row_start >= height
    /\ \E index_size \in 1..MaxIndexSize :
        container' = streaming_file(spatial_index, index_size)
    /\ IF spatial_index.frames = <<>>
       THEN pc' = "failed" /\ error' = "ZeroDivisionError"
       ELSE pc' = "created" /\ UNCHANGED error
    /\ UNCHANGED <<rasterVars, quantVars, raster_opened, first_index, encoderVars, cliVars,
                   spatial_index,
                   sidecar, readerVars, queryVars>>

----------------------------------------------------------------------------
(* Byte-Range Query Engine *)

(* A closed intersection test: boxes that only touch count as intersecting. *)
bbox_intersects_closed(q, fb) ==
    /\ q[1] <= fb[3]
    /\ q[3] >= fb[1]
    /\ q[2] <= fb[4]
    /\ q[4] >= fb[2]

(* A test that is closed on the x axis only. *)
bbox_intersects_x_closed(q, fb) ==
    /\ q[1] <= fb[3]
    /\ q[3] >= fb[1]
    /\ q[2] < fb[4]
    /\ q[4] > fb[2]

(* The test of SpatialIndex.query_bbox, lines 66-67. *)
bbox_intersects(q, fb) ==
    /\ q[1] < fb[3]
    /\ q[3] > fb[1]
    /\ q[2] < fb[4]
    /\ q[4] > fb[2]

(* SpatialIndex.query_bbox: the frames that pass the test, in list order. *)
query_bbox(fs, q) == SelectSeq(fs, LAMBDA fr : bbox_intersects(q, fr.bbox))

(* Python's ordering of (start, end) tuples. *)
TupleLE(r1, r2) == r1[1] < r2[1] \/ (r1[1] = r2[1] /\ r1[2] <= r2[2])

RECURSIVE InsertRange(_, _)
InsertRange(r, rs) ==
    IF rs = <<>> THEN << r >>
    ELSE IF TupleLE(r, Head(rs)) THEN << r >> \o rs
    ELSE << Head(rs) >> \o InsertRange(r, Tail(rs))

(* ranges.sort(), line 475 *)
RECURSIVE sort_ranges(_)
sort_ranges(rs) ==
    IF rs = <<>> THEN <<>>
    ELSE InsertRange(Head(rs), sort_ranges(Tail(rs)))

(* Ranges with an exclusive end, one byte too long for an HTTP range. *)
collect_ranges_exclusive(hit) ==
    LET live == SelectSeq(hit, LAMBDA fr : fr.byte_size > 0)
    IN  [k \in DOMAIN live |->
            << live[k].byte_offset, live[k].byte_offset + live[k].byte_size >>]

(* Lines 469-472: one (start, end) per selected frame with byte_size > 0. *)
collect_ranges(hit) ==
    LET live == SelectSeq(hit, LAMBDA fr : fr.byte_size > 0)
    IN  [k \in DOMAIN live |->
            << live[k].byte_offset, live[k].byte_offset + live[k].byte_size - 1 >>]

(* A merge that joins overlapping ranges only, leaving adjacent ones apart. *)
RECURSIVE merge_ranges_overlap_only(_, _)
merge_ranges_overlap_only(rs, acc) ==
    IF rs = <<>> THEN acc
    ELSE LET r == Head(rs)
             last == Len(acc)
         IN  IF acc # <<>> /\ r[1] <= acc[last][2]
             THEN merge_ranges_overlap_only(Tail(rs),
                      [acc EXCEPT ![last] = << @[1], Max(@[2], r[2]) >>])
             ELSE merge_ranges_overlap_only(Tail(rs), Append(acc, r))

(* A merge that takes the later range's end instead of the larger end. *)
RECURSIVE merge_ranges_last_end(_, _)
merge_ranges_last_end(rs, acc) ==
    IF rs = <<>> THEN acc
    ELSE LET r == Head(rs)
             last == Len(acc)
         IN  IF acc # <<>> /\ r[1] <= acc[last][2] + 1
             THEN merge_ranges_last_end(Tail(rs),
                      [acc EXCEPT ![last] = << @[1], r[2] >>])
             ELSE merge_ranges_last_end(Tail(rs), Append(acc, r))

(* Lines 476-481: the merge loop, started with merged = []. *)
RECURSIVE merge_ranges(_, _)
merge_ranges(rs, acc) ==
    IF rs = <<>> THEN acc
    ELSE LET r == Head(rs)
             last == Len(acc)
         IN  IF acc # <<>> /\ r[1] <= acc[last][2] + 1
             THEN merge_ranges(Tail(rs),
                      [acc EXCEPT ![last] = << @[1], Max(@[2], r[2]) >>])
             ELSE merge_ranges(Tail(rs), Append(acc, r))

(* SpatialFLACStreamer.get_byte_ranges_for_bbox *)
get_byte_ranges_for_bbox(idx, q) ==
    merge_ranges(sort_ranges(collect_ranges(query_bbox(idx.frames, q))), <<>>)

(* A query that keeps only the selected frames in the index it searched. *)
index_after_query_filtered(idx, q) ==
    [idx EXCEPT !.frames = query_bbox(idx.frames, q)]

(* Lines 57-70, 464-484: self.spatial_index after a query.  query_bbox   *)
(* appends the selected frames to a list of its own, the ranges are new  *)
(* tuples in a new list, and sort() and the merge work on that list: the *)
(* index keeps its frame list, and each frame and total_bytes their      *)
(* values.                                                               *)
index_after_query(idx, q) ==
    [frames |-> [k \in DOMAIN idx.frames |-> idx.frames[k]],
     transform |-> idx.transform,
     total_bytes |-> idx.total_bytes]

(* A query through a loaded SpatialFLACStreamer; q is drawn from Q. *)
QueryIn(Q) ==
    /\ load_status = "ok"
    /\ tried[1] = "embedded"
    /\ \E q \in Q :
        /\ bbox' = q
        /\ intersecting' = query_bbox(loaded.frames, q)
        /\ merged' = get_byte_ranges_for_bbox(loaded, q)
        /\ loaded' = index_after_query(loaded, q)
    /\ UNCHANGED <<rasterVars, quantVars, pc, writerVars, encoderVars, cliVars, spatial_index,
                   fileVars, path_kind, http_status, tried, load_status, requests,
                   extracted>>

----------------------------------------------------------------------------
(* SpatialFLACStreamer.__init__ / _load_spatial_index *)

(* Lines 388-426: what the embedded-metadata attempt yields, NoIndex when *)
(* it raises (mutagen missing, HTTP error, not a FLAC stream, no index    *)
(* attribute).                                                            *)
embedded_read(file, pk, status, mutagen) ==
    IF ~mutagen THEN NoIndex
    ELSE IF pk = "url" /\ status >= 400 THEN NoIndex
    ELSE IF file.format # "flac" THEN NoIndex
    ELSE file.embedded

(* The sources _load_spatial_index goes through for a failed embedded read. *)
load_fallback(pk, side) ==
    IF pk # "Path" THEN [tried |-> << "embedded" >>, status |-> "AttributeError",
                         data |-> NoIndex]
    ELSE IF side = NoIndex
         THEN [tried |-> << "embedded", "sidecar" >>,
               status |-> "FileNotFoundError", data |-> NoIndex]
         ELSE [tried |-> << "embedded", "sidecar" >>, status |-> "ok",
               data |-> side]

(* _load_spatial_index as a whole: sources tried, outcome, parsed JSON. *)
load_spatial_index(file, side, pk, status, mutagen) ==
    LET emb == embedded_read(file, pk, status, mutagen)
    IN  IF emb # NoIndex
        THEN [tried |-> << "embedded" >>, status |-> "ok", data |-> emb]
        ELSE load_fallback(pk, side)

(* The ways a reader is handed the container, with the server's answer. *)
Opens == { << "Path", 0 >>, << "str", 0 >>,
           << "url", 206 >>, << "url", 200 >>, << "url", 404 >> }

(* Line 398: the last byte of the one range the metadata fetch asks for. *)
MetadataLast == 1048575

(* Fetching the metadata twice, as a handle without a cached index would. *)
metadata_requests_twice(pk, mutagen) ==
    IF pk = "url" /\ mutagen
    THEN << << 0, MetadataLast >>, << 0, MetadataLast >> >>
    ELSE <<>>

(* Lines 392-399: the range requests of the embedded-metadata attempt; a  *)
(* local file is handed to mutagen by name, and nothing is requested when *)
(* the mutagen import fails first.                                        *)
metadata_requests(pk, mutagen) ==
    IF pk = "url" /\ mutagen THEN << << 0, MetadataLast >> >> ELSE <<>>

(* A server has nothing but an error status to answer for a missing file. *)
Serves(file, o) == (o[1] = "url" /\ file.format = "absent") => o[2] >= 400

(* SpatialFLACStreamer(flac_path), the path and server drawn from O, the *)
(* outcome of the mutagen import from M.                                 *)
StreamerOpenWith(O, M) ==
    /\ pc \in {"encoded", "created", "stored"}
    /\ load_status = "none"
    /\ \E o \in {x \in O : Serves(container, x)}, mutagen \in M :
        LET r == load_spatial_index(container, sidecar, o[1], o[2], mutagen)
        IN  /\ path_kind' = o[1]
            /\ http_status' = o[2]
            /\ tried' = r.tried
            /\ load_status' = r.status
            /\ loaded' = IF r.status = "ok" THEN reconstruct_index(r.data)
                         ELSE NoIndex
            /\ requests' = metadata_requests(o[1], mutagen)
    /\ UNCHANGED <<rasterVars, quantVars, pc, writerVars, encoderVars, cliVars, spatial_index,
                   fileVars, queryVars>>

(* The reader wherever it runs: the mutagen import succeeds or fails. *)
StreamerOpenIn(O) == StreamerOpenWith(O, BOOLEAN)

----------------------------------------------------------------------------
(* extract_streaming (cli.py) *)

NoTarget == [none |-> TRUE]

(* Lines 898-919: the index read from the length-prefixed header, NoIndex *)
(* when the read raises (range request refused, or no such header).       *)
extract_metadata(file, pk, status) ==
    IF pk = "url" /\ status # 206 THEN NoIndex
    ELSE IF file.format # "length_prefixed" THEN NoIndex
    ELSE file.lp_index

(* struct.unpack('>I', b'fLaC'): what line 905 / 917 decodes from the *)
(* first four bytes of a FLAC stream.                                *)
FlacMagic == 1716281667

(* Lines 900-905, 915-917: the index size decoded from the first 4 bytes. *)
header_index_size(file) ==
    IF file.format = "length_prefixed" THEN file.layout[1].value ELSE FlacMagic

(* The tile span computed from the recorded offset alone. *)
tile_span_relative(index_size, target) ==
    << target.byte_offset, target.byte_offset + target.byte_size - 1 >>

(* Lines 996-999: the absolute span of the target tile. *)
tile_span(index_size, target) ==
    LET header_size == 4 + index_size
        abs_start == header_size + target.byte_offset
        abs_end == abs_start + target.byte_size - 1
    IN  << abs_start, abs_end >>

(* Lines 899-917, 1001-1011: the byte ranges the command requests from *)
(* the server, or reads from the local file, in order.                 *)
extract_requests(file, pk, status, metadata, target) ==
    IF pk = "url" /\ status # 206 THEN << << 0, 3 >> >>
    ELSE IF file.format = "absent" THEN <<>>
    ELSE LET index_size == header_index_size(file)
             header == << << 0, 3 >>, << 4, 3 + index_size >> >>
         IN  IF metadata = NoIndex \/ target = NoTarget THEN header
             ELSE Append(header, tile_span(index_size, target))

(* Lines 926-934: the first frame whose frame_id is tile_id. *)
target_by_id(fs, id) ==
    LET hit == SelectSeq(fs, LAMBDA fr : fr.frame_id = id)
    IN  IF hit = <<>> THEN NoTarget ELSE hit[1]

(* Lines 936-938: max(frames, key=frame_id), the first of the largest. *)
target_last(fs) ==
    IF fs = <<>> THEN NoTarget
    ELSE LET top == CHOOSE k \in DOMAIN fs :
                        /\ \A j \in DOMAIN fs : fs[j].frame_id <= fs[k].frame_id
                        /\ \A j \in 1..(k - 1) : fs[j].frame_id < fs[k].frame_id
         IN  fs[top]

(* Lines 940-960: the first frame nearest to the centre of all bboxes; the *)
(* distances are compared squared and doubled, which keeps their order.    *)
target_center(fs) ==
    IF fs = <<>> THEN NoTarget
    ELSE LET lo(i) == CHOOSE v \in {fs[k].bbox[i] : k \in DOMAIN fs} :
                          \A k \in DOMAIN fs : v <= fs[k].bbox[i]
             hi(i) == CHOOSE v \in {fs[k].bbox[i] : k \in DOMAIN fs} :
                          \A k \in DOMAIN fs : v >= fs[k].bbox[i]
             cx == lo(1) + hi(3)
             cy == lo(2) + hi(4)
             d(k) == (fs[k].bbox[1] + fs[k].bbox[3] - cx)
                         * (fs[k].bbox[1] + fs[k].bbox[3] - cx)
                     + (fs[k].bbox[2] + fs[k].bbox[4] - cy)
                         * (fs[k].bbox[2] + fs[k].bbox[4] - cy)
             best == CHOOSE k \in DOMAIN fs :
                         /\ \A j \in DOMAIN fs : d(k) <= d(j)
                         /\ \A j \in 1..(k - 1) : d(j) > d(k)
         IN  fs[best]

(* The bbox branch with a closed test: touching tiles count as intersecting. *)
cli_bbox_intersects_closed(bbox_coords, frame_bbox) ==
    /\ bbox_coords[1] <= frame_bbox[3] /\ bbox_coords[3] >= frame_bbox[1]
    /\ bbox_coords[2] <= frame_bbox[4] /\ bbox_coords[4] >= frame_bbox[2]

(* Lines 976-977: the test of the bbox branch. *)
cli_bbox_intersects(bbox_coords, frame_bbox) ==
    /\ bbox_coords[1] < frame_bbox[3] /\ bbox_coords[3] > frame_bbox[1]
    /\ bbox_coords[2] < frame_bbox[4] /\ bbox_coords[4] > frame_bbox[2]

(* Lines 973-978: the frames the bbox selects, in list order. *)
extract_intersecting(fs, q) ==
    SelectSeq(fs, LAMBDA fr : cli_bbox_intersects(q, fr.bbox))

(* A --bbox string is the sequence of its comma-separated fields; a *)
(* field is numeric, with the value float() gives it, or it is not.  *)
Field(num, val) == [num |-> num, val |-> val]

(* The string that spells the box q. *)
bbox_string(q) == [k \in DOMAIN q |-> Field(TRUE, q[k])]

(* Lines 964-969 (also 317-324, 428-435): float() of every field, then *)
(* the count; NoBox stands for the ValueError either of them raises.   *)
parse_bbox(s) ==
    IF (\A k \in DOMAIN s : s[k].num) /\ Len(s) = 4
    THEN [k \in 1..4 |-> s[k].val]
    ELSE NoBox

(* Lines 923-990: the branch chain tile_id / last / center / bbox; the *)
(* bbox string is parsed inside its branch.                            *)
select_target(fs, sel) ==
    IF sel.tile_id # -1 THEN target_by_id(fs, sel.tile_id)
    ELSE IF sel.last THEN target_last(fs)
    ELSE IF sel.center THEN target_center(fs)
    ELSE IF sel.bbox # NoBox
         THEN LET bbox_coords == parse_bbox(sel.bbox)
                  hit == extract_intersecting(fs, bbox_coords)
              IN  IF bbox_coords = NoBox \/ hit = <<>> THEN NoTarget ELSE hit[1]
    ELSE NoTarget

(* Command-line selections: tile_id -1 stands for an option not given, *)
(* bbox is the --bbox string.                                          *)
Selection(id, l, c, q) == [tile_id |-> id, last |-> l, center |-> c, bbox |-> q]

(* One run of the extract-streaming command, its path drawn from O and *)
(* its options from S.                                                 *)
ExtractIn(O, S) ==
    /\ pc \in {"encoded", "created", "stored"}
    /\ load_status = "none"
    /\ \E o \in {x \in O : x[1] # "Path" /\ Serves(container, x)}, sel \in S :
        LET metadata == extract_metadata(container, o[1], o[2])
            target == IF metadata = NoIndex THEN NoTarget
                      ELSE select_target(metadata.frames, sel)
            by_bbox == /\ metadata # NoIndex
                       /\ sel.tile_id = -1 /\ ~sel.last /\ ~sel.center
                       /\ sel.bbox # NoBox
            bbox_coords == IF by_bbox THEN parse_bbox(sel.bbox) ELSE NoBox
        IN  /\ path_kind' = o[1]
            /\ http_status' = o[2]
            /\ tried' = << "length_prefixed" >>
            /\ load_status' = IF metadata = NoIndex THEN "error"
                              ELSE IF by_bbox /\ bbox_coords = NoBox
                                   THEN "bbox_rejected"
                              ELSE "ok"
            /\ loaded' = metadata
            /\ bbox' = bbox_coords
            /\ intersecting' = IF bbox_coords # NoBox
                               THEN extract_intersecting(metadata.frames, bbox_coords)
                               ELSE <<>>
            /\ merged' = <<>>
            /\ extracted' = target
            /\ requests' = extract_requests(container, o[1], o[2], metadata, target)
    /\ UNCHANGED <<rasterVars, quantVars, pc, writerVars, encoderVars, cliVars, spatial_index,
                   fileVars>>

----------------------------------------------------------------------------
(* The encode-then-read specification *)

(* The raster's bounds as rasterio reports them for a north-up transform. *)
DatasetExtent(h, w, T) ==
    LET p == AffineApply(T, 0, 0)
        q == AffineApply(T, w, h)
    IN  << p[1], q[2], q[1], p[2] >>

Range(f) == {f[k] : k \in DOMAIN f}

(* Query boxes of interest for the encoded raster: its full extent and the *)
(* bbox of each of its tiles.                                              *)
FocusBoxes ==
    {DatasetExtent(height, width, transform)} \cup
    {tile_to_bbox(t[1], t[2], t[3], t[4], transform) :
        t \in Range(calculate_tiles(height, width, tile_size))}

FocusSelections ==
    {Selection(-1, FALSE, FALSE, bbox_string(q)) : q \in FocusBoxes} \cup
    {Selection(id, FALSE, FALSE, NoBox) : id \in 0..MaxTiles} \cup
    {Selection(-1, TRUE, FALSE, NoBox), Selection(-1, FALSE, TRUE, NoBox),
     Selection(-1, FALSE, FALSE, NoBox)}

(* An n-dimensional array: its shape and its elements in C order. *)
Array(shape, flat) == [shape |-> shape, flat |-> flat]

NoArray == Array(<<>>, <<>>)

(* No raster has been read for conversion. *)
InitBandsIdle ==
    /\ src_data = NoArray
    /\ data_reshaped = NoArray
    /\ raster_data = NoArray
    /\ tile_data = NoArray
    /\ sample_rate = 0
    /\ channels = 0

(* No conversion of cell values has started. *)
InitQuantIdle ==
    /\ dtype = "none"
    /\ data_min = 0
    /\ data_max = 0
    /\ cell = 0
    /\ normalized = << 0, 1 >>
    /\ audio = 0
    /\ restored = << 0, 1 >>

(* Nothing has been planned, written, opened or queried. *)
InitReadWrite ==
    /\ tiles = <<>>
    /\ frames = <<>>
    /\ bytes_written = 0
    /\ row_start = 0
    /\ col_start = 0
    /\ frame_id = 0
    /\ total_offset = 0
    /\ spatial_index = NoIndex
    /\ path_kind = "none"
    /\ http_status = 0
    /\ tried = <<>>
    /\ load_status = "none"
    /\ loaded = NoIndex
    /\ requests = <<>>
    /\ raster_opened = FALSE
    /\ error = "none"
    /\ first_index = NoIndex
    /\ bbox = NoBox
    /\ intersecting = <<>>
    /\ merged = <<>>
    /\ extracted = NoTarget

InitRest ==
    /\ InitQuantIdle
    /\ InitBandsIdle
    /\ InitReadWrite

Init ==
    /\ height \in 1..MaxHeight
    /\ width \in 1..MaxWidth
    /\ tile_size \in 1..MaxTileSize
    /\ transform \in Transforms
    /\ TileCount(height, width, tile_size) <= MaxTiles
    /\ pc = "idle"
    /\ container = NoFile
    /\ sidecar = NoIndex
    /\ InitRest

EncodeTile == EncodeTileIn(1..MaxPayload)
CreateTile == CreateTileIn(1..MaxPayload)
Query == QueryIn(FocusBoxes)
StreamerOpen == StreamerOpenIn(Opens)
Extract == ExtractIn(Opens, FocusSelections)

Next ==
    \/ EncodeStart
    \/ EncodeTile
    \/ EncodeTileFail
    \/ EncodeFinish
    \/ CreateStart
    \/ CreateTile
    \/ CreateTileFail
    \/ CreateFinish
    \/ StreamerOpen
    \/ Query
    \/ Extract

Spec == Init /\ [][Next]_vars

----------------------------------------------------------------------------
(* Properties of the planner and of the writers *)

(* The pixel windows a finished or running writer has planned. *)
PlannedWindows ==
    IF pc \in {"encode_tiles", "encoded"}
    THEN [k \in DOMAIN tiles |->
             Window(tiles[k][2], tiles[k][1], tiles[k][4], tiles[k][3])]
    ELSE IF pc = "created"
    THEN [k \in DOMAIN spatial_index.frames |-> spatial_index.frames[k].window]
    ELSE <<>>

InWindow(r, c, win) ==
    /\ win.row_off <= r /\ r < win.row_off + win.height
    /\ win.col_off <= c /\ c < win.col_off + win.width

RECURSIVE SumAreas(_)
SumAreas(ws) ==
    IF ws = <<>> THEN 0
    ELSE ws[1].width * ws[1].height + SumAreas(Tail(ws))

(* C1: the windows planned by _calculate_tiles, and those create_streaming *)
(* has emitted when its loops end, partition [0,height) x [0,width): every *)
(* pixel lies in exactly one window, no two windows share a pixel, no      *)
(* window reaches outside the raster, and the areas sum to height*width.   *)
C1_GridCoverage ==
    pc \in {"encode_tiles", "encoded", "created"} =>
        LET ws == PlannedWindows
        IN  /\ \A r \in 0..(height - 1), c \in 0..(width - 1) :
                Cardinality({k \in DOMAIN ws : InWindow(r, c, ws[k])}) = 1
            /\ \A k \in DOMAIN ws :
                /\ ws[k].width >= 1 /\ ws[k].height >= 1
                /\ ws[k].row_off >= 0 /\ ws[k].row_off + ws[k].height <= height
                /\ ws[k].col_off >= 0 /\ ws[k].col_off + ws[k].width <= width
            /\ SumAreas(ws) = height * width

(* A 2x2 grid whose last row and column of tiles are clipped. *)
C1_Witness ==
    /\ pc = "encoded"
    /\ Len(tiles) = 4
    /\ tiles[4][3] < tile_size
    /\ tiles[4][4] < tile_size

(* The frame list a finished writer recorded. *)
WrittenFrames == IF pc \in {"encoded", "created"} THEN spatial_index.frames ELSE <<>>

(* C2: after a successful encode by either writer, frame k (frame_id k) *)
(* starts at the sum of the sizes of the frames before it: frame 0 at   *)
(* offset 0 and the payloads back-to-back in frame_id order.            *)
C2_OffsetsCumulative ==
    \A k \in DOMAIN WrittenFrames :
        /\ WrittenFrames[k].frame_id = k - 1
        /\ WrittenFrames[k].byte_offset = SumSizes(SubSeq(WrittenFrames, 1, k - 1))

(* Three or more tiles of unequal payload lengths were written. *)
C2_Witness ==
    /\ pc = "encoded"
    /\ Len(spatial_index.frames) >= 3
    /\ spatial_index.frames[1].byte_size # spatial_index.frames[2].byte_size
    /\ spatial_index.frames[3].byte_offset > spatial_index.frames[2].byte_offset

----------------------------------------------------------------------------
(* Properties of queries against an index the encoder produced *)

(* A SpatialFLACStreamer holds the index encode_spatial_flac wrote. *)
StreamerOnEncoded ==
    /\ pc = "encoded"
    /\ load_status = "ok"
    /\ tried[1] = "embedded"

(* C6: on an index produced by the encoder over a north-up raster, the *)
(* query for the full dataset extent returns exactly one range, and it *)
(* is (0, total_bytes - 1).                                            *)
C6_FullExtentOneRange ==
    (StreamerOnEncoded /\ bbox = DatasetExtent(height, width, transform)) =>
        merged = << << 0, loaded.total_bytes - 1 >> >>

(* The full-extent query was answered over a grid of four tiles. *)
C6_Witness ==
    /\ StreamerOnEncoded
    /\ bbox = DatasetExtent(height, width, transform)
    /\ Len(loaded.frames) = 4
    /\ Len(merged) = 1

(* C7: on an index produced by the encoder, the query for the bbox of *)
(* tile k returns exactly one range, tile k's own span: the tiles     *)
(* that touch tile k along an edge or at a corner add nothing.        *)
C7_OneTileOneRange ==
    StreamerOnEncoded =>
        \A k \in DOMAIN loaded.frames :
            bbox = loaded.frames[k].bbox =>
                merged = << << loaded.frames[k].byte_offset,
                               loaded.frames[k].byte_offset
                                   + loaded.frames[k].byte_size - 1 >> >>

(* The query for the bbox of a tile with neighbours on two sides. *)
C7_Witness ==
    /\ StreamerOnEncoded
    /\ Len(loaded.frames) = 4
    /\ loaded.frames[2].window.col_off > 0
    /\ loaded.frames[3].window.row_off > 0
    /\ bbox = loaded.frames[1].bbox
    /\ Len(merged) = 1

----------------------------------------------------------------------------
(* The scenario raster: 1000 x 1000 cells, tile size 512, transform         *)
(* (0.01, 0, -120.0, 0, -0.01, 40.0); coordinates in hundredths of a degree. *)

ScenarioRaster ==
    [height |-> 1000, width |-> 1000, tile_size |-> 512,
     transform |-> << 1, 0, -12000, 0, -1, 4000 >>]

(* The query bbox (-120.0, 34.88, -117.44, 37.44). *)
ScenarioQuery == << -12000, 3488, -11744, 3744 >>

InitScenario ==
    /\ height = ScenarioRaster.height
    /\ width = ScenarioRaster.width
    /\ tile_size = ScenarioRaster.tile_size
    /\ transform = ScenarioRaster.transform
    /\ pc = "idle"
    /\ container = NoFile
    /\ sidecar = NoIndex
    /\ InitRest

QueryScenario == QueryIn(FocusBoxes \cup {ScenarioQuery})

NextScenario ==
    \/ EncodeStart
    \/ EncodeTile
    \/ EncodeFinish
    \/ StreamerOpen
    \/ QueryScenario

SpecScenario == InitScenario /\ [][NextScenario]_vars

(* C8: the scenario raster encodes to exactly 4 frames, frame_id 0..3 in  *)
(* row-major order; frame 0 has bbox (-120.0, 34.88, -114.88, 40.0); the  *)
(* query (-120.0, 34.88, -117.44, 37.44) returns one range, frame 0's span. *)
C8_Scenario ==
    /\ pc = "encoded" =>
        /\ Len(spatial_index.frames) = 4
        /\ \A k \in 1..4 : spatial_index.frames[k].frame_id = k - 1
        /\ [k \in 1..4 |-> << spatial_index.frames[k].window.row_off,
                              spatial_index.frames[k].window.col_off >>]
               = << << 0, 0 >>, << 0, 512 >>, << 512, 0 >>, << 512, 512 >> >>
        /\ spatial_index.frames[1].bbox = << -12000, 3488, -11488, 4000 >>
    /\ (StreamerOnEncoded /\ bbox = ScenarioQuery) =>
        merged = << << loaded.frames[1].byte_offset,
                       loaded.frames[1].byte_offset
                           + loaded.frames[1].byte_size - 1 >> >>

(* The scenario query was answered from the loaded index. *)
C8_Witness ==
    /\ StreamerOnEncoded
    /\ bbox = ScenarioQuery
    /\ Len(loaded.frames) = 4
    /\ Len(merged) = 1

----------------------------------------------------------------------------
(* Queries against an arbitrary index: a sidecar file whose frames lie in *)
(* a strip, one cell each, with any byte_offset and byte_size (overlaps,  *)
(* gaps, empty payloads and any order included).                          *)

StripTransform == << 1, 0, 0, 0, -1, 1 >>

strip_index(n, offsets, sizes) ==
    [transform |-> StripTransform,
     frames |-> [k \in 1..n |->
         frame_to_dict(SpatialFrame(k - 1,
             tile_to_bbox(0, k - 1, 1, 1, StripTransform),
             Window(k - 1, 0, 1, 1), offsets[k], sizes[k]))]]

LocalOpens == { << "Path", 0 >>, << "str", 0 >> }

(* Boxes <<i, 0, j, 1>> over the strip: the frames i+1 .. j, none for i >= j. *)
StripQueries == { << i, 0, j, 1 >> : i \in 0..width, j \in 1..width }

InitRanges ==
    /\ height = 1
    /\ width \in 1..MaxFrames
    /\ tile_size = 1
    /\ transform = StripTransform
    /\ pc = "stored"
    /\ container = [format |-> "flac", embedded |-> NoIndex, lp_index |-> NoIndex,
                    layout |-> << Segment("tile", 0, 1, 0) >>]
    /\ \E offsets \in [1..width -> 0..MaxOffset], sizes \in [1..width -> 0..MaxSize] :
           sidecar = strip_index(width, offsets, sizes)
    /\ InitRest

StreamerOpenLocal == StreamerOpenIn(LocalOpens)
QueryStrip == QueryIn(StripQueries)

NextRanges ==
    \/ StreamerOpenLocal
    \/ QueryStrip

SpecRanges == InitRanges /\ [][NextRanges]_vars

(* The tiles of the loaded index the last query box intersects, by the *)
(* four strict inequalities, restricted to those with a payload.       *)
HitPositions ==
    {k \in DOMAIN loaded.frames :
        /\ bbox[1] < loaded.frames[k].bbox[3] /\ bbox[3] > loaded.frames[k].bbox[1]
        /\ bbox[2] < loaded.frames[k].bbox[4] /\ bbox[4] > loaded.frames[k].bbox[2]
        /\ loaded.frames[k].byte_size > 0}

(* The byte positions of the payloads of those tiles. *)
PayloadBytes ==
    UNION { loaded.frames[k].byte_offset ..
                (loaded.frames[k].byte_offset + loaded.frames[k].byte_size - 1) :
            k \in HitPositions }

(* The byte positions a list of ranges covers. *)
CoveredBytes(rs) == UNION { rs[i][1] .. rs[i][2] : i \in DOMAIN rs }

Answered == load_status = "ok" /\ tried[1] = "embedded" /\ bbox # NoBox

(* C3: the ranges get_byte_ranges_for_bbox returns are sorted ascending by *)
(* start, pairwise disjoint and never adjacent: each start is at least the *)
(* previous end + 2.                                                       *)
C3_MergeInvariant ==
    Answered =>
        /\ \A i \in DOMAIN merged : merged[i][1] <= merged[i][2]
        /\ \A i \in 1..(Len(merged) - 1) :
            /\ merged[i][1] < merged[i + 1][1]
            /\ merged[i + 1][1] >= merged[i][2] + 2

(* Two payloads stored out of order and one byte apart were selected: the *)
(* answer is sorted and keeps them as two ranges.                         *)
C3_Witness ==
    /\ Answered
    /\ Cardinality(HitPositions) = 2
    /\ loaded.frames[1].byte_offset > loaded.frames[2].byte_offset
    /\ Len(merged) = 2
    /\ merged[2][1] = merged[1][2] + 2

(* C4: the returned ranges cover exactly the bytes of the payloads of the *)
(* tiles that intersect the bbox and have byte_size > 0, and no shorter   *)
(* list of ranges covers that set: there is one range per maximal run of  *)
(* consecutive bytes.                                                     *)
C4_ExactMinimalCover ==
    Answered =>
        /\ CoveredBytes(merged) = PayloadBytes
        /\ Len(merged) = Cardinality({b \in PayloadBytes : b - 1 \notin PayloadBytes})

(* A payload lying strictly inside another one was selected with it, and *)
(* the two were returned as one range.                                    *)
C4_Witness ==
    /\ Answered
    /\ \E j, k \in HitPositions :
        /\ j # k
        /\ loaded.frames[j].byte_offset < loaded.frames[k].byte_offset
        /\ loaded.frames[k].byte_offset + loaded.frames[k].byte_size
               < loaded.frames[j].byte_offset + loaded.frames[j].byte_size
    /\ Len(merged) = 1

----------------------------------------------------------------------------
(* Arbitrary query boxes against the index of an encoded raster: every box *)
(* with corners on the pixel grid, one cell beyond the raster included,    *)
(* well-formed, degenerate or inverted.                                    *)

UnitTransform == << 1, 0, 0, 0, -1, 0 >>

GridBoxes ==
    { << x1, y1, x2, y2 >> :
        x1 \in (-1)..(width + 1), x2 \in (-1)..(width + 1),
        y1 \in (-(height + 1))..1, y2 \in (-(height + 1))..1 }

InitBoxes ==
    /\ Init
    /\ transform = UnitTransform

EncodeTileUnit == EncodeTileIn({1})
CreateTileUnit == CreateTileIn({1})
StreamerOpenPath == StreamerOpenIn({ << "Path", 0 >> })

(* The first query of a freshly opened streamer. *)
QueryGrid == bbox = NoBox /\ QueryIn(GridBoxes)

ExtractGrid ==
    ExtractIn({ << "str", 0 >> }, {Selection(-1, FALSE, FALSE, bbox_string(q)) : q \in GridBoxes})

NextBoxes ==
    \/ EncodeStart
    \/ EncodeTileUnit
    \/ EncodeFinish
    \/ CreateStart
    \/ CreateTileUnit
    \/ CreateFinish
    \/ StreamerOpenPath
    \/ QueryGrid
    \/ ExtractGrid

SpecBoxes == InitBoxes /\ [][NextBoxes]_vars

(* A reader (streamer or extract-streaming) answered a bbox query. *)
BoxAnswered == load_status = "ok" /\ bbox # NoBox

(* Frame k of the loaded index is among the selected frames. *)
Selected(k) == \E j \in DOMAIN intersecting : intersecting[j] = loaded.frames[k]

(* The closed boxes meet, but only along an edge or at a corner. *)
TouchesOnly(q, fb) ==
    /\ q[1] <= fb[3] /\ q[3] >= fb[1] /\ q[2] <= fb[4] /\ q[4] >= fb[2]
    /\ (q[1] = fb[3] \/ q[3] = fb[1] \/ q[2] = fb[4] \/ q[4] = fb[2])

(* C5: a tile T is selected for the query Q exactly when Q.xmin < T.xmax, *)
(* Q.xmax > T.xmin, Q.ymin < T.ymax and Q.ymax > T.ymin; a tile that only *)
(* touches Q along an edge or at a corner is not selected; the selected   *)
(* tiles come in frame order; extract-streaming takes the first of them.  *)
C5_OpenIntersection ==
    BoxAnswered =>
        /\ \A k \in DOMAIN loaded.frames :
            LET T == loaded.frames[k].bbox
            IN  /\ Selected(k) <=>
                    (bbox[1] < T[3] /\ bbox[3] > T[1] /\ bbox[2] < T[4] /\ bbox[4] > T[2])
                /\ TouchesOnly(bbox, T) => ~Selected(k)
        /\ \A j \in DOMAIN intersecting :
            \E k \in DOMAIN loaded.frames : intersecting[j] = loaded.frames[k]
        /\ \A j \in 1..(Len(intersecting) - 1) :
            intersecting[j].frame_id < intersecting[j + 1].frame_id
        /\ (tried = << "length_prefixed" >> /\ intersecting # <<>>) =>
            extracted = intersecting[1]

(* A box that covers one tile and touches its three neighbours selects *)
(* that one tile only.                                                  *)
C5_Witness ==
    /\ BoxAnswered
    /\ Len(loaded.frames) = 4
    /\ Len(intersecting) = 1
    /\ Cardinality({k \in DOMAIN loaded.frames :
                        TouchesOnly(bbox, loaded.frames[k].bbox)}) = 3

Degenerate(q) == q[1] = q[3] \/ q[2] = q[4]
Inverted(q) == q[1] > q[3] \/ q[2] > q[4]

(* C9 as stated: a degenerate or inverted query box selects no tile in *)
(* query_bbox and yields no range from get_byte_ranges_for_bbox,       *)
(* wherever it lies.                                                   *)
C9_DegenerateSelectsNothing ==
    (Answered /\ (Degenerate(bbox) \/ Inverted(bbox))) =>
        /\ intersecting = <<>>
        /\ merged = <<>>

(* On each axis where q is degenerate or inverted, both of its coordinates *)
(* lie strictly inside the extent of fb.                                   *)
StrictlyInside(q, fb) ==
    /\ q[1] >= q[3] => (fb[1] < q[3] /\ q[1] < fb[3])
    /\ q[2] >= q[4] => (fb[2] < q[4] /\ q[2] < fb[4])

(* C9 amended: a degenerate or inverted box gets the same open test as any *)
(* other box. It selects a tile only if, on every axis where the box is    *)
(* degenerate or inverted, both box coordinates lie strictly inside the    *)
(* tile's extent; when no tile of the index is placed so, no tile is       *)
(* selected and the range list is empty.                                   *)
C9_DegenerateOnlyInside ==
    (Answered /\ (Degenerate(bbox) \/ Inverted(bbox))) =>
        /\ \A j \in DOMAIN intersecting : StrictlyInside(bbox, intersecting[j].bbox)
        /\ (\A k \in DOMAIN loaded.frames : ~StrictlyInside(bbox, loaded.frames[k].bbox))
               => (intersecting = <<>> /\ merged = <<>>)

(* A box inverted on the x axis, lying inside a tile, selected that tile *)
(* and got its byte range.                                               *)
C9_Witness ==
    /\ Answered
    /\ bbox[1] > bbox[3]
    /\ Len(intersecting) = 1
    /\ Len(merged) = 1

----------------------------------------------------------------------------
(* Opening containers: any combination of files a reader may find at the *)
(* container path and at the sidecar path.                               *)

(* The index encode_spatial_flac returns when every payload is n bytes long. *)
encoded_index(h, w, ts, T, n) ==
    LET ts_ == calculate_tiles(h, w, ts)
    IN  SpatialIndex(
            [k \in DOMAIN ts_ |->
                SpatialFrame(k - 1,
                    tile_to_bbox(ts_[k][1], ts_[k][2], ts_[k][3], ts_[k][4], T),
                    Window(ts_[k][2], ts_[k][1], ts_[k][4], ts_[k][3]),
                    (k - 1) * n, n)],
            T)

(* The index create_streaming writes when every payload is n bytes long. *)
created_index(h, w, ts, T, n) ==
    LET ts_ == calculate_tiles(h, w, ts)
    IN  [transform |-> T, width |-> w, height |-> h, tile_size |-> ts,
         frames |-> [k \in DOMAIN ts_ |->
             cli_frame(ts_[k][1], ts_[k][2], k - 1, (k - 1) * n, n, h, w, ts, T)]]

StoredContainers(h, w, ts, T, n) ==
    LET idx == encoded_index(h, w, ts, T, n)
    IN  { NoFile,
          [format |-> "flac", embedded |-> NoIndex, lp_index |-> NoIndex,
           layout |-> tile_segments(idx.frames)] }
        \cup { [format |-> "flac", embedded |-> embedded_tags(idx),
                lp_index |-> NoIndex,
                layout |-> embed_metadata(tile_segments(idx.frames), m)] :
                   m \in 1..MaxMetadata }
        \cup { streaming_file(created_index(h, w, ts, T, n), index_size) :
                   index_size \in 1..MaxIndexSize }

StoredSidecars(h, w, ts, T, n) ==
    { NoIndex, index_to_dict(encoded_index(h, w, ts, T, n)) }

InitLoad ==
    /\ height \in 1..MaxHeight
    /\ width \in 1..MaxWidth
    /\ tile_size \in 1..MaxTileSize
    /\ transform \in Transforms
    /\ TileCount(height, width, tile_size) <= MaxTiles
    /\ pc = "stored"
    /\ \E n \in 1..MaxPayload :
        /\ container \in StoredContainers(height, width, tile_size, transform, n)
        /\ sidecar \in StoredSidecars(height, width, tile_size, transform, n)
    /\ InitRest

NextLoad ==
    \/ StreamerOpen
    \/ Query
    \/ Extract

SpecLoad == InitLoad /\ [][NextLoad]_vars

RECURSIVE IsPrefix(_, _)
IsPrefix(s, t) ==
    \/ s = <<>>
    \/ /\ t # <<>>
       /\ Head(s) = Head(t)
       /\ IsPrefix(Tail(s), Tail(t))

(* C10: a reader opened on a local container that carries only a      *)
(* length-prefixed index loads it, having consulted the sources in    *)
(* the fixed order embedded metadata, length-prefixed framing,        *)
(* sidecar file and stopped at the first that parses.                 *)
C10_SourceOrder ==
    (/\ load_status # "none"
     /\ path_kind \in {"Path", "str"}
     /\ container.format = "length_prefixed"
     /\ sidecar = NoIndex) =>
        /\ load_status = "ok"
        /\ IsPrefix(tried, << "embedded", "length_prefixed", "sidecar" >>)

(* A SpatialFLACStreamer construction that ended in an exception. *)
StreamerFailed ==
    /\ tried # <<>>
    /\ tried[1] = "embedded"
    /\ load_status # "ok"

(* C11: when no index source can be located or parsed, constructing a   *)
(* SpatialFLACStreamer ends in the index-not-found error               *)
(* (FileNotFoundError) for local paths and URLs alike, and a failed     *)
(* remote metadata fetch is reported as something other than            *)
(* index-not-found.                                                     *)
C11_IndexNotFound ==
    StreamerFailed =>
        /\ loaded = NoIndex
        /\ IF path_kind = "url" /\ http_status >= 400
           THEN load_status # "FileNotFoundError"
           ELSE load_status = "FileNotFoundError"

(* A SpatialFLACStreamer whose construction returned. *)
StreamerLoaded == load_status = "ok" /\ tried[1] = "embedded"

(* C12: a SpatialFLACStreamer handle fetches the index metadata once, at *)
(* creation: nothing is requested before, a URL handle has sent exactly  *)
(* the one request for bytes 0..1048575, a local handle has sent none,   *)
(* and every step taken on a created handle (each query, in any order)   *)
(* leaves the request log, the sources consulted and the cached index    *)
(* unchanged and answers from that cached index.                         *)
C12_MetadataFetchedOnce ==
    /\ [](load_status = "none" => requests = <<>>)
    /\ [](StreamerLoaded =>
            requests = IF path_kind = "url" THEN << << 0, MetadataLast >> >>
                       ELSE <<>>)
    /\ [][StreamerLoaded =>
            /\ UNCHANGED << requests, tried, loaded, load_status >>
            /\ bbox' # NoBox
            /\ merged' = get_byte_ranges_for_bbox(loaded, bbox')]_vars

(* A URL handle that has answered a query with at least one range. *)
C12_Witness ==
    /\ StreamerLoaded
    /\ path_kind = "url"
    /\ requests = << << 0, MetadataLast >> >>
    /\ bbox # NoBox
    /\ merged # <<>>

(* C13: a reader whose range requests to a remote server are answered  *)
(* with a status other than 206 fails; in particular a 200 answer is   *)
(* never taken for the requested range, by SpatialFLACStreamer or by   *)
(* extract-streaming.                                                  *)
C13_RangeOnlyPartial ==
    (/\ load_status # "none"
     /\ path_kind = "url"
     /\ requests # <<>>
     /\ http_status # 206) =>
        /\ load_status # "ok"
        /\ loaded = NoIndex

----------------------------------------------------------------------------
(* The writers alone, for every tile size a caller can pass and with or *)
(* without a file already at the output path.                           *)

(* A file left at the output path by something else. *)
OldFile == [format |-> "flac", embedded |-> NoIndex, lp_index |-> NoIndex,
            layout |-> << Segment("old", 0, 1, 0) >>]

(* SpatialFLACEncoder(tile_size) / --tile-size take any integer. *)
TileSizes == {0 - 1, 0} \cup 1..MaxTileSize

InitEncode ==
    /\ height \in 1..MaxHeight
    /\ width \in 1..MaxWidth
    /\ tile_size \in TileSizes
    /\ transform \in Transforms
    /\ TileCount(height, width, tile_size) <= MaxTiles
    /\ pc = "idle"
    /\ container \in {NoFile, OldFile}
    /\ sidecar = NoIndex
    /\ InitRest

NextEncode ==
    \/ EncodeStart
    \/ EncodeTile
    \/ EncodeTileFail
    \/ EncodeFinish
    \/ CreateStart
    \/ CreateTile
    \/ CreateTileFail
    \/ CreateFinish

SpecEncode == InitEncode /\ [][NextEncode]_vars

(* The output path holds what it held before the writer started. *)
OutputUntouched == container \in {NoFile, OldFile}

(* C14: an encode asked for with tile_size <= 0 is rejected with an     *)
(* error before the input raster is opened and before any output is    *)
(* created, and never ends successfully with an empty tile list.        *)
C14_TileSizeRejected ==
    (tile_size <= 0 /\ pc # "idle") =>
        /\ pc = "failed"
        /\ error = "ValueError"
        /\ ~raster_opened
        /\ OutputUntouched
        /\ sidecar = NoIndex

(* C15: when the compressor fails on a tile, the encode aborts and the  *)
(* output path holds no partial container: the file does not exist or   *)
(* is the file that was there before.                                   *)
C15_NoPartialContainer ==
    (pc = "failed" /\ error = "CompressionError") => OutputUntouched

----------------------------------------------------------------------------
(* Quantization: RasterFLACConverter._normalize_to_audio and            *)
(* _denormalize_from_audio (converter.py), and the tile normalization   *)
(* of SpatialFLACEncoder (spatial_encoder.py).                          *)
(*                                                                      *)
(* A real number is a fraction << num, den >>, den # 0, and arithmetic  *)
(* on fractions is exact; the cell of a float raster is held in units   *)
(* of 1 / FloatDen.  Integer array arithmetic keeps the width of the    *)
(* array's dtype and wraps, as numpy's does.                            *)

Abs(x) == IF x < 0 THEN 0 - x ELSE x

RECURSIVE GCD(_, _)
GCD(a, b) == IF b = 0 THEN a ELSE GCD(b, a % b)

(* A fraction in lowest terms with a positive denominator. *)
Reduce(f) ==
    LET g == GCD(Abs(f[1]), Abs(f[2]))
        sgn == IF f[2] < 0 THEN 0 - 1 ELSE 1
    IN  << sgn * (f[1] \div g), sgn * (f[2] \div g) >>

(* << quotient, remainder >> of a * b by c for a, b >= 0 and c > 0; the *)
(* product is split so that no intermediate value leaves 32 bits for    *)
(* operands below 2^17.                                                 *)
MulDiv(a, b, c) ==
    IF a = 0 \/ b <= 2147483647 \div a
    THEN << (a * b) \div c, (a * b) % c >>
    ELSE LET a1 == a \div 256
             a0 == a % 256
             t == a1 * b
             u == (t % c) * 256 + a0 * b
         IN  << (t \div c) * 256 + u \div c, u % c >>

(* a * b / c truncated toward zero, b >= 0, c # 0: what astype() does *)
(* to a float that is in the range of the integer type.               *)
MulDivTrunc(a, b, c) ==
    LET q == MulDiv(Abs(a), b, Abs(c))[1]
    IN  IF (a < 0) # (c < 0) THEN 0 - q ELSE q

(* m + a * b / c rounded to the nearest integer, ties to even (np.round), *)
(* for b >= 0 and c > 0.                                                  *)
RoundHalfEven(m, a, b, c) ==
    LET md == MulDiv(Abs(a), b, c)
        qf == IF a >= 0 THEN md[1]
              ELSE IF md[2] = 0 THEN 0 - md[1] ELSE 0 - md[1] - 1
        rf == IF a >= 0 \/ md[2] = 0 THEN md[2] ELSE c - md[2]
        lo == m + qf
    IN  IF 2 * rf < c THEN lo
        ELSE IF 2 * rf > c THEN lo + 1
        ELSE IF lo % 2 = 0 THEN lo ELSE lo + 1

(* The cell types of the model. *)
IntegerDtypes == {"uint8", "uint16", "int16", "int32"}
Dtypes == IntegerDtypes \cup {"float32"}

(* Smallest value and number of values of the 8- and 16-bit types. *)
DtypeMin(dt) == IF dt = "int16" THEN 0 - 32768 ELSE 0
DtypeSpan(dt) == IF dt = "uint8" THEN 256 ELSE 65536

(* The result of integer arithmetic held in an array of type dt: the  *)
(* value modulo 2^width.  The int32 values of the model never leave   *)
(* 32 bits.                                                           *)
Wrap(x, dt) ==
    IF dt = "int32" THEN x
    ELSE DtypeMin(dt) + ((x - DtypeMin(dt)) % DtypeSpan(dt))

(* astype(dt) of a float holding the integer x: x itself when dt can   *)
(* hold it; otherwise the C conversion is undefined and the build      *)
(* either wraps or saturates.                                          *)
CastInt(x, dt) ==
    IF dt = "int32" \/ Wrap(x, dt) = x THEN {x}
    ELSE { Wrap(x, dt),
           IF x < DtypeMin(dt) THEN DtypeMin(dt)
           ELSE DtypeMin(dt) + DtypeSpan(dt) - 1 }

(* Lines 29-37: the bit depth _calculate_audio_params picks for a dtype. *)
calculate_audio_bits(dt) ==
    IF dt = "uint8" THEN 16
    ELSE IF dt \in {"uint16", "int16"} THEN 16
    ELSE 24

(* Lines 78-81: the factor the normalized value is multiplied by. *)
full_scale(bits) == IF bits = 16 THEN 32767 ELSE 8388607

(* Lines 78-81: the integer type the samples are cast to. *)
audio_dtype(bits) == IF bits = 16 THEN "int16" ELSE "int32"

(* The min-max mapping 2 * (v - mn) / (mx - mn) - 1 in exact arithmetic, *)
(* and 0 for a raster without range.                                    *)
minmax_exact(v, mn, mx) ==
    IF mx > mn THEN << 2 * (v - mn) - (mx - mn), mx - mn >> ELSE << 0, 1 >>

(* Lines 61-75: data_norm for the cell v.  Float data is used as it is; *)
(* for integer data, data - data_min and data_max - data_min are        *)
(* computed in the raster's dtype before the product with 2.0 makes     *)
(* them floats.                                                         *)
normalize_norm(dt, v, mn, mx) ==
    IF dt = "float32" THEN << v, FloatDen >>
    ELSE IF mx > mn
         THEN LET d == Wrap(v - mn, dt)
                  r == Wrap(mx - mn, dt)
              IN  << 2 * d - r, r >>
         ELSE << 0, 1 >>

(* Lines 77-83: (data_norm * full_scale).astype(int16 / int32); the set *)
(* holds every sample the cast can produce.                             *)
to_audio(norm, bits) ==
    CastInt(MulDivTrunc(norm[1], full_scale(bits), norm[2]), audio_dtype(bits))

(* Lines 88-110: the cell _denormalize_from_audio returns for the sample *)
(* s, as the set of fractions the final cast can produce.               *)
denormalize_from_audio(s, dt, mn, mx, bits) ==
    IF dt = "float32" THEN { << s, full_scale(bits) >> }
    ELSE LET fs == full_scale(bits)
             x == RoundHalfEven(mn, s + fs, mx - mn, 2 * fs)
         IN  { << y, 1 >> : y \in CastInt(x, dt) }

(* A fraction clipped to [-1, 1] (np.clip). *)
Clip(f) ==
    LET g == Reduce(f)
    IN  IF g[1] > g[2] THEN << 1, 1 >>
        ELSE IF g[1] < 0 - g[2] THEN << 0 - 1, 1 >>
        ELSE g

(* spatial_encoder.py lines 229-248: SpatialFLACEncoder's data_norm for *)
(* the cell v of a tile.                                               *)
tile_normalize(dt, v, mn, mx) ==
    IF dt = "uint8" THEN << 2 * v - 255, 255 >>
    ELSE IF dt = "uint16" THEN << 2 * v - 65535, 65535 >>
    ELSE IF dt = "int16" THEN << v, 32767 >>
    ELSE IF dt = "int32" THEN << v, 2147483647 >>
    ELSE IF dt = "float32" THEN Clip(<< v, FloatDen >>)
    ELSE minmax_exact(v, mn, mx)

(* The rasters converted: << dtype, data_min, data_max >>, float values *)
(* in units of 1 / FloatDen.                                           *)
Rasters ==
    { << "uint8", 0, 255 >>, << "uint8", 7, 7 >>, << "uint8", 10, 13 >>,
      << "uint16", 0, 65535 >>, << "uint16", 100, 32866 >>,
      << "uint16", 0, 40000 >>,
      << "int16", 0 - 300, 700 >>, << "int16", 0 - 20000, 20000 >>,
      << "int32", 1000000, 1000100 >>, << "int32", 5, 5 >>,
      << "float32", 0, 4 >>, << "float32", 2, 2 >>, << "float32", 0 - 8, 12 >> }

InitQuant ==
    /\ height = 1
    /\ width = 1
    /\ tile_size = 1
    /\ transform = UnitTransform
    /\ pc = "raster"
    /\ container = NoFile
    /\ sidecar = NoIndex
    /\ InitReadWrite
    /\ \E r \in Rasters :
        /\ dtype = r[1]
        /\ data_min = r[2]
        /\ data_max = r[3]
        /\ cell \in r[2]..r[3]
    /\ normalized = << 0, 1 >>
    /\ audio = 0
    /\ restored = << 0, 1 >>
    /\ InitBandsIdle

tilingVars == <<rasterVars, writerVars, encoderVars, cliVars, spatial_index,
                fileVars, readerVars, queryVars>>

(* tiff_to_flac, lines 180-197: quantize the raster's cells. *)
Normalize ==
    /\ pc = "raster"
    /\ pc' = "quantized"
    /\ normalized' = normalize_norm(dtype, cell, data_min, data_max)
    /\ audio' \in to_audio(normalized', calculate_audio_bits(dtype))
    /\ UNCHANGED <<tilingVars, dtype, data_min, data_max, cell, restored, bandVars>>

(* flac_to_tiff, lines 277-282: turn the decoded samples back into cells. *)
Denormalize ==
    /\ pc = "quantized"
    /\ pc' = "restored"
    /\ restored' \in denormalize_from_audio(audio, dtype, data_min, data_max,
                                           calculate_audio_bits(dtype))
    /\ UNCHANGED <<tilingVars, dtype, data_min, data_max, cell, normalized, audio,
                   bandVars>>

(* encode_spatial_flac, line 193: normalize the cells of a tile. *)
TileNormalize ==
    /\ pc = "raster"
    /\ pc' = "tile_normalized"
    /\ normalized' = tile_normalize(dtype, cell, data_min, data_max)
    /\ UNCHANGED <<tilingVars, dtype, data_min, data_max, cell, audio, restored,
                   bandVars>>

NextQuant ==
    \/ Normalize
    \/ Denormalize
    \/ TileNormalize

SpecQuant == InitQuant /\ [][NextQuant]_vars

(* The sample type's full scale for the raster being converted. *)
FullScale == full_scale(calculate_audio_bits(dtype))

(* C16: for every integer cell v of a raster, quantizing with          *)
(* _normalize_to_audio and dequantizing with _denormalize_from_audio   *)
(* gives a value within (data_max - data_min) / (2 * full_scale) of v, *)
(* at both bit depths; a raster whose range is below full_scale comes  *)
(* back exactly.                                                       *)
C16_RoundTripBound ==
    (pc = "restored" /\ dtype \in IntegerDtypes) =>
        /\ restored[2] = 1
        /\ Abs(restored[1] - cell) <= (data_max - data_min) \div (2 * FullScale)

(* C17: on both encode paths and for every cell type the normalized   *)
(* value is the min-max mapping 2*(v - min)/(max - min) - 1 clamped   *)
(* to [-1, 1].                                                        *)
C17_AlwaysMinMax ==
    pc \in {"quantized", "restored", "tile_normalized"} =>
        Reduce(normalized) = Clip(minmax_exact(cell, data_min, data_max))

(* C18: the sample of a normalized value n in [-1, 1] is n * full_scale *)
(* rounded to the nearest integer, and lies in [-full_scale, full_scale]. *)
C18_RoundToNearest ==
    (/\ pc \in {"quantized", "restored"}
     /\ Abs(normalized[1]) <= Abs(normalized[2])) =>
        LET md == MulDiv(Abs(normalized[1]), FullScale, Abs(normalized[2]))
            nearest == IF 2 * md[2] < Abs(normalized[2]) THEN {md[1]}
                       ELSE IF 2 * md[2] > Abs(normalized[2]) THEN {md[1] + 1}
                       ELSE {md[1], md[1] + 1}
            negative == (normalized[1] < 0) # (normalized[2] < 0)
        IN  /\ Abs(audio) \in nearest
            /\ audio # 0 => (audio < 0) = negative
            /\ Abs(audio) <= FullScale

(* C19: a raster with data_max = data_min is quantized to the midpoint *)
(* sample 0 in every cell, on either encode path, and dequantizing     *)
(* returns data_min.                                                   *)
C19_DegenerateMidpoint ==
    data_max = data_min =>
        /\ pc \in {"quantized", "restored"} => audio = 0
        /\ pc = "tile_normalized" => normalized[1] = 0
        /\ pc = "restored" =>
            Reduce(restored) =
                Reduce(<< data_min, IF dtype = "float32" THEN FloatDen ELSE 1 >>)

(* The absolute offset of the j-th segment of a file: the bytes before it. *)
RECURSIVE SegmentStart(_, _)
SegmentStart(layout, j) ==
    IF j = 1 THEN 0 ELSE SegmentStart(layout, j - 1) + layout[j - 1].size

(* extract-streaming has fetched a tile of a length-prefixed container. *)
TileFetched ==
    /\ container.format = "length_prefixed"
    /\ tried = << "length_prefixed" >>
    /\ load_status = "ok"
    /\ extracted # NoTarget

(* C20: in a length-prefixed container the first 4 bytes hold N, the   *)
(* byte length of the index that follows; for every frame the          *)
(* byte_size bytes at absolute offset 4 + N + byte_offset are that     *)
(* tile's payload; and extract-streaming reads or requests exactly     *)
(* [4 + N + byte_offset, 4 + N + byte_offset + byte_size - 1].         *)
C20_LengthPrefixedOffsets ==
    container.format = "length_prefixed" =>
        LET layout == container.layout
            N == layout[1].value
            fs == container.lp_index.frames
        IN  /\ layout[1].kind = "length" /\ layout[1].size = 4
            /\ layout[2].kind = "index" /\ layout[2].size = N
            /\ \A k \in DOMAIN fs :
                \E j \in DOMAIN layout :
                    /\ layout[j].kind = "tile"
                    /\ layout[j].id = fs[k].frame_id
                    /\ layout[j].size = fs[k].byte_size
                    /\ SegmentStart(layout, j) = 4 + N + fs[k].byte_offset
            /\ TileFetched =>
                requests[Len(requests)] =
                    << 4 + N + extracted.byte_offset,
                       4 + N + extracted.byte_offset + extracted.byte_size - 1 >>

(* A tile other than the first is fetched by URL from a container that *)
(* create_streaming has just written.                                  *)
C20_Witness ==
    /\ pc = "created"
    /\ TileFetched
    /\ path_kind = "url"
    /\ Len(container.lp_index.frames) >= 2
    /\ extracted.byte_offset > 0
    /\ Len(requests) = 3

----------------------------------------------------------------------------
(* The index object after encode_spatial_flac has returned it.  The index *)
(* holds the encoder's own frame list (line 221 passes self.frames), and  *)
(* frames, byte_size and total_bytes are plain attributes: code that      *)
(* holds the index can assign to them.                                    *)

(* frame.byte_size = n on a frame of the returned index: the list object *)
(* is shared with the encoder, total_bytes is the attribute set once at  *)
(* line 55.                                                              *)
FrameResize ==
    /\ pc = "encoded"
    /\ \E k \in DOMAIN frames, n \in 0..MaxSize :
        /\ n # frames[k].byte_size
        /\ frames' = [frames EXCEPT ![k].byte_size = n]
        /\ spatial_index' = [spatial_index EXCEPT !.frames = frames']
    /\ pc' = "index_changed"
    /\ UNCHANGED <<rasterVars, quantVars, writerVars, tiles, bytes_written, cliVars,
                   fileVars, readerVars, queryVars>>

(* index.frames.append(frame): a frame joins the list after construction. *)
FrameAppend ==
    /\ pc = "encoded"
    /\ \E n \in 1..MaxSize :
        /\ frames' = Append(frames,
               SpatialFrame(Len(frames), tile_to_bbox(0, 0, 1, 1, transform),
                            Window(0, 0, 1, 1), bytes_written, n))
        /\ spatial_index' = [spatial_index EXCEPT !.frames = frames']
    /\ pc' = "index_changed"
    /\ UNCHANGED <<rasterVars, quantVars, writerVars, tiles, bytes_written, cliVars,
                   fileVars, readerVars, queryVars>>

NextIndex ==
    \/ EncodeStart
    \/ EncodeTile
    \/ EncodeFinish
    \/ FrameResize
    \/ FrameAppend

SpecIndex == Init /\ [][NextIndex]_vars

(* C21: in every state the total_bytes of a SpatialIndex equals the sum *)
(* of byte_size over its current frames, also after a frame's byte_size *)
(* or the frame list has changed since the index was constructed.       *)
C21_TotalBytesFresh ==
    pc \in {"encoded", "index_changed"} =>
        spatial_index.total_bytes = SumSizes(spatial_index.frames)

----------------------------------------------------------------------------
(* The commands that take a --bbox string: query, extract-tile (cli.py) *)
(* and extract-streaming.                                               *)

(* Strings that are not a bbox: three fields, five fields, and four *)
(* fields of which one is not a number.                             *)
MalformedStrings ==
    { << Field(TRUE, 0), Field(TRUE, 0), Field(TRUE, 1) >>,
      << Field(TRUE, 0), Field(TRUE, 0), Field(TRUE, 1), Field(TRUE, 1),
         Field(TRUE, 2) >>,
      << Field(TRUE, 0), Field(FALSE, 0), Field(TRUE, 1), Field(TRUE, 1) >> }

BboxStrings == {bbox_string(q) : q \in FocusBoxes} \cup MalformedStrings

(* query, lines 302-334, and extract_tile, lines 417-449: the local-file *)
(* test, the bbox parse, then SpatialFLACStreamer(...) and               *)
(* get_byte_ranges_for_bbox.  query hands the streamer a Path for a      *)
(* local file, extract_tile the str it was given.                        *)
QueryCommandIn(O, B) ==
    /\ pc \in {"encoded", "created", "stored"}
    /\ load_status = "none"
    /\ \E o \in {x \in O : Serves(container, x)}, s \in B, mutagen \in BOOLEAN :
        LET missing == o[1] # "url" /\ container.format = "absent"
            bbox_tuple == parse_bbox(s)
            r == load_spatial_index(container, sidecar, o[1], o[2], mutagen)
            index == reconstruct_index(r.data)
        IN  /\ path_kind' = o[1]
            /\ http_status' = o[2]
            /\ IF missing \/ bbox_tuple = NoBox
               THEN /\ load_status' = IF missing THEN "missing" ELSE "bbox_rejected"
                    /\ tried' = <<>>
                    /\ loaded' = NoIndex
                    /\ requests' = <<>>
                    /\ UNCHANGED <<bbox, intersecting, merged>>
               ELSE /\ tried' = r.tried
                    /\ load_status' = r.status
                    /\ requests' = metadata_requests(o[1], mutagen)
                    /\ bbox' = bbox_tuple
                    /\ IF r.status = "ok"
                       THEN /\ loaded' = index
                            /\ intersecting' = query_bbox(index.frames, bbox_tuple)
                            /\ merged' = get_byte_ranges_for_bbox(index, bbox_tuple)
                       ELSE /\ loaded' = NoIndex
                            /\ UNCHANGED <<intersecting, merged>>
    /\ UNCHANGED <<rasterVars, quantVars, pc, writerVars, encoderVars, cliVars,
                   spatial_index, fileVars, extracted>>

MalformedSelections ==
    {Selection(-1, FALSE, FALSE, s) : s \in MalformedStrings} \cup
    {Selection(0, FALSE, FALSE, s) : s \in MalformedStrings}

QueryCommand == QueryCommandIn(Opens, BboxStrings)
ExtractCommand == ExtractIn(Opens, FocusSelections \cup MalformedSelections)

NextParse ==
    \/ QueryCommand
    \/ ExtractCommand

SpecParse == InitLoad /\ [][NextParse]_vars

(* C22: query, extract-tile and extract-streaming reject a malformed bbox *)
(* (not exactly 4 coordinates, or a coordinate that is not a number)      *)
(* before anything is read or requested from the container.               *)
C22_BboxParsedFirst ==
    load_status = "bbox_rejected" =>
        /\ requests = <<>>
        /\ tried = <<>>
        /\ loaded = NoIndex

----------------------------------------------------------------------------
(* Queries and reads through one SpatialFLACStreamer *)

(* The number of ranges one handle is followed through. *)
MaxRequests == 2

(* A stored container of a raster of up to 2 x 2 one-cell tiles, about *)
(* to be opened.                                                      *)
InitStream ==
    /\ height \in 1..2
    /\ width \in 1..2
    /\ tile_size = 1
    /\ transform \in Transforms
    /\ pc = "stored"
    /\ \E n \in 1..MaxPayload :
        /\ container \in StoredContainers(height, width, tile_size, transform, n)
        /\ sidecar \in StoredSidecars(height, width, tile_size, transform, n)
    /\ InitRest

(* stream_bbox_data, lines 486-497: the ranges of the bbox, then one seek *)
(* and read per range on open(self.flac_path); open() raises for a URL,   *)
(* after the ranges were computed and before anything is read.            *)
StreamBboxDataIn(Q) ==
    /\ load_status = "ok"
    /\ tried[1] = "embedded"
    /\ Len(requests) < MaxRequests
    /\ \E q \in Q :
        LET ranges == get_byte_ranges_for_bbox(loaded, q)
        IN  /\ bbox' = q
            /\ intersecting' = query_bbox(loaded.frames, q)
            /\ merged' = ranges
            /\ loaded' = index_after_query(loaded, q)
            /\ requests' = IF path_kind = "url" THEN requests
                           ELSE requests \o ranges
    /\ UNCHANGED <<rasterVars, quantVars, pc, writerVars, encoderVars, cliVars,
                   spatial_index, fileVars, path_kind, http_status, tried,
                   load_status, extracted>>

StreamBboxData == StreamBboxDataIn(FocusBoxes)

NextStream ==
    \/ StreamerOpen
    \/ Query
    \/ StreamBboxData

SpecStream == InitStream /\ [][NextStream]_vars

(* C23: once a SpatialFLACStreamer has loaded its index, no query_bbox, *)
(* get_byte_ranges_for_bbox or stream_bbox_data call changes it: the    *)
(* frame list, every field of every frame and total_bytes stay as       *)
(* loaded.                                                              *)
C23_LoadedIndexImmutable ==
    [][StreamerLoaded => loaded' = loaded]_vars

(* Two reads and a query have gone through a handle on a local file *)
(* with several tiles.                                              *)
C23_Witness ==
    /\ StreamerLoaded
    /\ path_kind = "Path"
    /\ Len(loaded.frames) >= 2
    /\ Len(requests) = MaxRequests
    /\ bbox # NoBox
    /\ Len(intersecting) = 1

(* C24: in the finished container of encode_spatial_flac, with the      *)
(* metadata embedded, the byte_size bytes at byte_offset are exactly    *)
(* the payload written for tile k, for every frame k of the index:      *)
(* embedding moves or resizes no payload.                               *)
C24_EmbeddingKeepsOffsets ==
    (pc = "encoded" /\ container.embedded # NoIndex) =>
        \A k \in DOMAIN spatial_index.frames :
            \E j \in DOMAIN container.layout :
                /\ container.layout[j].kind = "tile"
                /\ container.layout[j].id = spatial_index.frames[k].frame_id
                /\ container.layout[j].size = spatial_index.frames[k].byte_size
                /\ SegmentStart(container.layout, j)
                       = spatial_index.frames[k].byte_offset

----------------------------------------------------------------------------
(* Bands and channels: the reshapes of tiff_to_flac, flac_to_tiff,        *)
(* encode_spatial_flac and create_streaming.  An array is its shape and   *)
(* its elements in C order, as numpy holds it; an index is 0-based.       *)

RECURSIVE Prod(_)
Prod(shape) == IF shape = <<>> THEN 1 ELSE Head(shape) * Prod(Tail(shape))

(* a[i, j, k] and a[i, j] *)
at3(a, i, j, k) == a.flat[(i * a.shape[2] + j) * a.shape[3] + k + 1]
at2(a, i, j) == a.flat[i * a.shape[2] + j + 1]

(* a.reshape(shape): the same elements in the same order. *)
reshape(a, shape) == Array(shape, a.flat)

(* a.transpose(axes) of a 3-d array: axis k of the result is axis *)
(* axes[k] of a.                                                  *)
transpose(a, axes) ==
    LET sh == [k \in 1..3 |-> a.shape[axes[k] + 1]]
        idx(p) == << p \div (sh[2] * sh[3]), (p \div sh[3]) % sh[2], p % sh[3] >>
        from(i) == [d \in 1..3 |-> i[CHOOSE k \in 1..3 : axes[k] + 1 = d]]
    IN  Array(sh, [p \in 1..Prod(sh) |->
                      LET j == from(idx(p - 1)) IN at3(a, j[1], j[2], j[3])])

(* a.T of a 2-d array *)
T(a) ==
    LET rows == a.shape[2]
        cols == a.shape[1]
    IN  Array(<< rows, cols >>,
              [p \in 1..(rows * cols) |-> at2(a, (p - 1) % cols, (p - 1) \div cols)])

(* src.read(window=window): all bands of the window, shape (bands, h, w). *)
read_window(a, win) ==
    LET sh == << a.shape[1], win.height, win.width >>
    IN  Array(sh, [p \in 1..Prod(sh) |->
                      at3(a, (p - 1) \div (sh[2] * sh[3]),
                             win.row_off + (((p - 1) \div sh[3]) % sh[2]),
                             win.col_off + ((p - 1) % sh[3]))])

(* src.read(band, window=window): one band of the window, shape (h, w). *)
read_band(a, band, win) ==
    LET sh == << win.height, win.width >>
    IN  Array(sh, [p \in 1..Prod(sh) |->
                      at3(a, band - 1, win.row_off + ((p - 1) \div sh[2]),
                             win.col_off + ((p - 1) % sh[2]))])

(* Band-major data cut into rows of one sample per band without moving *)
(* the bands to the last axis.                                         *)
interleave_reshape_only(d) ==
    reshape(d, << d.shape[2] * d.shape[3], d.shape[1] >>)

(* converter.py lines 184-194: data.transpose(1, 2, 0).reshape(-1, channels); *)
(* src.read() returns a 3-d array also for one band.                          *)
interleave(d) ==
    reshape(transpose(d, << 1, 2, 0 >>), << d.shape[2] * d.shape[3], d.shape[1] >>)

(* converter.py lines 265-273: the array rebuilt from the decoded stream *)
(* for the width, height and count of the metadata.                      *)
deinterleave(a, h, w, count) ==
    IF count > 1
    THEN transpose(reshape(a, << h, w, count >>), << 2, 0, 1 >>)
    ELSE reshape(a, << h, w >>)

(* converter.py lines 304-308: the raster the written TIFF holds; a *)
(* single band is written as band 1.                                *)
written_raster(a, count) ==
    IF count = 1 THEN reshape(a, << 1, a.shape[1], a.shape[2] >>) ELSE a

(* spatial_encoder.py lines 186-190: tile_data.reshape(bands, h * w).T *)
tile_interleave(t) ==
    IF Len(t.shape) = 3
    THEN T(reshape(t, << t.shape[1], t.shape[2] * t.shape[3] >>))
    ELSE reshape(t, << Prod(t.shape), 1 >>)

(* converter.py lines 39-52: the sample rate for an array of this shape; *)
(* the array src.read() returns has the shape (bands, height, width).    *)
calculate_sample_rate(shape) ==
    LET total_pixels == shape[1] * shape[2]
    IN  IF total_pixels < 1000000 THEN 44100
        ELSE IF total_pixels < 10000000 THEN 48000
        ELSE IF total_pixels < 100000000 THEN 96000
        ELSE 192000

(* A raster whose every cell holds its own position in the array. *)
PositionRaster(b, h, w) == Array(<< b, h, w >>, [p \in 1..(b * h * w) |-> p - 1])

(* The windows of the tile grid for the raster's tile size. *)
TileWindows ==
    {Window(t[2], t[1], t[4], t[3]) :
        t \in Range(calculate_tiles(height, width, tile_size))}

InitBands ==
    /\ height \in 1..MaxHeight
    /\ width \in 1..MaxWidth
    /\ tile_size \in 1..MaxTileSize
    /\ transform = UnitTransform
    /\ pc = "raster_read"
    /\ container = NoFile
    /\ sidecar = NoIndex
    /\ InitReadWrite
    /\ InitQuantIdle
    /\ \E b \in 1..MaxBands : src_data = PositionRaster(b, height, width)
    /\ data_reshaped = NoArray
    /\ raster_data = NoArray
    /\ tile_data = NoArray
    /\ sample_rate = 0
    /\ channels = 0

(* tiff_to_flac, lines 137-197: audio parameters, then the reshape of the *)
(* whole raster into the sample stream.                                   *)
TiffToFlac ==
    /\ pc = "raster_read"
    /\ pc' = "flac_written"
    /\ sample_rate' = calculate_sample_rate(src_data.shape)
    /\ channels' = src_data.shape[1]
    /\ data_reshaped' = interleave(src_data)
    /\ UNCHANGED <<tilingVars, dtype, data_min, data_max, cell, normalized, audio,
                   restored, src_data, raster_data, tile_data>>

(* flac_to_tiff, lines 258-273 and 304-308: the stream back into a raster. *)
FlacToTiff ==
    /\ pc = "flac_written"
    /\ pc' = "tiff_written"
    /\ raster_data' = written_raster(
           deinterleave(data_reshaped, height, width, src_data.shape[1]),
           src_data.shape[1])
    /\ UNCHANGED <<tilingVars, dtype, data_min, data_max, cell, normalized, audio,
                   restored, src_data, data_reshaped, tile_data, sample_rate,
                   channels>>

(* encode_spatial_flac, lines 182-197 and 260: one tile read with all its *)
(* bands and reshaped; channels = audio_data.shape[1].                    *)
TileEncode ==
    /\ pc = "raster_read"
    /\ pc' = "tile_encoded"
    /\ \E window \in TileWindows :
        /\ tile_data' = read_window(src_data, window)
        /\ data_reshaped' = tile_interleave(tile_data')
        /\ channels' = data_reshaped'.shape[2]
    /\ sample_rate' = 44100
    /\ UNCHANGED <<tilingVars, dtype, data_min, data_max, cell, normalized, audio,
                   restored, src_data, raster_data>>

(* create_streaming, lines 697-733: band 1 of the window is read, written *)
(* to a temporary one-band TIFF and converted by tiff_to_flac.            *)
TileCreate ==
    /\ pc = "raster_read"
    /\ pc' = "tile_created"
    /\ \E window \in TileWindows :
        LET temp_tif == written_raster(read_band(src_data, 1, window), 1)
        IN  /\ tile_data' = read_band(src_data, 1, window)
            /\ data_reshaped' = interleave(temp_tif)
            /\ channels' = temp_tif.shape[1]
            /\ sample_rate' = calculate_sample_rate(temp_tif.shape)
    /\ UNCHANGED <<tilingVars, dtype, data_min, data_max, cell, normalized, audio,
                   restored, src_data, raster_data>>

NextBands ==
    \/ TiffToFlac
    \/ FlacToTiff
    \/ TileEncode
    \/ TileCreate

SpecBands == InitBands /\ [][NextBands]_vars

(* The band count and the tile shape of the raster being converted. *)
BandCount == src_data.shape[1]

(* C25: the converter's reshape puts the sample of band b at pixel      *)
(* (r, c) at stream position (r * width + c, b); the spatial encoder's  *)
(* reshape gives the same layout within each tile; and flac_to_tiff's   *)
(* inverse reshape returns every sample to its (band, row, col), with   *)
(* the raster's shape.                                                  *)
C25_InterleaveRoundTrip ==
    /\ pc \in {"flac_written", "tiff_written"} =>
        /\ data_reshaped.shape = << height * width, BandCount >>
        /\ \A b \in 0..(BandCount - 1), r \in 0..(height - 1), c \in 0..(width - 1) :
            at2(data_reshaped, r * width + c, b) = at3(src_data, b, r, c)
    /\ pc = "tile_encoded" =>
        /\ data_reshaped.shape
               = << tile_data.shape[2] * tile_data.shape[3], BandCount >>
        /\ \A b \in 0..(BandCount - 1), r \in 0..(tile_data.shape[2] - 1),
              c \in 0..(tile_data.shape[3] - 1) :
            at2(data_reshaped, r * tile_data.shape[3] + c, b)
                = at3(tile_data, b, r, c)
    /\ pc = "tiff_written" => raster_data = src_data

(* A raster of several bands, longer than wide, has gone through both *)
(* reshapes.                                                         *)
C25_Witness ==
    /\ pc = "tiff_written"
    /\ BandCount >= 2
    /\ width >= 2
    /\ height > width
    /\ raster_data.shape = << BandCount, height, width >>

(* C27: on both tiled write paths every tile is compressed with as many *)
(* channels as the raster has bands.                                    *)
C27_ChannelsAreBands ==
    pc \in {"tile_encoded", "tile_created"} => channels = BandCount

----------------------------------------------------------------------------
(* The sample rate of large rasters.  _calculate_audio_params reads the *)
(* shape of the array only, so the cells of these rasters are not held. *)

RateSides == {1, 999, 1000, 1001, 3163, 10000}

InitRate ==
    /\ height \in RateSides
    /\ width \in RateSides
    /\ tile_size = 1
    /\ transform = UnitTransform
    /\ pc = "raster_read"
    /\ container = NoFile
    /\ sidecar = NoIndex
    /\ InitReadWrite
    /\ InitQuantIdle
    /\ \E b \in 1..MaxBands : src_data = Array(<< b, height, width >>, <<>>)
    /\ data_reshaped = NoArray
    /\ raster_data = NoArray
    /\ tile_data = NoArray
    /\ sample_rate = 0
    /\ channels = 0

(* tiff_to_flac, lines 179-182: self._calculate_audio_params(data, data.dtype) *)
CalculateAudioParams ==
    /\ pc = "raster_read"
    /\ pc' = "params_calculated"
    /\ sample_rate' = calculate_sample_rate(src_data.shape)
    /\ UNCHANGED <<tilingVars, dtype, data_min, data_max, cell, normalized, audio,
                   restored, src_data, data_reshaped, raster_data, tile_data,
                   channels>>

SpecRate == InitRate /\ [][CalculateAudioParams]_vars

(* C26: the sample rate the converter picks depends on height * width   *)
(* only: 44100 below 1,000,000 pixels, 48000 below 10,000,000, 96000     *)
(* below 100,000,000 and 192000 otherwise, whatever the band count.      *)
C26_RateByPixelCount ==
    pc = "params_calculated" =>
        sample_rate = IF height * width < 1000000 THEN 44100
                      ELSE IF height * width < 10000000 THEN 48000
                      ELSE IF height * width < 100000000 THEN 96000
                      ELSE 192000

----------------------------------------------------------------------------
(* encode_spatial_flac followed by SpatialFLACStreamer on the path it wrote *)

(* SpatialFLACStreamer(flac_path) on the pathlib.Path that was handed to *)
(* encode_spatial_flac, in the installation that ran the encoder: where  *)
(* the encoder's mutagen import succeeded, the reader's succeeds too.    *)
StreamerOpenEncoded ==
    /\ pc = "encoded"
    /\ StreamerOpenWith({ << "Path", 0 >> },
                        {b \in BOOLEAN : container.embedded # NoIndex => b})

NextRoundTrip ==
    \/ EncodeStart
    \/ EncodeTile
    \/ EncodeFinish
    \/ StreamerOpenEncoded

SpecRoundTrip == Init /\ [][NextRoundTrip]_vars

(* The reader took the index from the sidecar file the encoder wrote. *)
ReadFromSidecar == tried = << "embedded", "sidecar" >>

(* C28: after encode_spatial_flac has completed, with the index embedded *)
(* or written to the sidecar, a SpatialFLACStreamer opened on the same   *)
(* local path loads an index with the same frames in the same order     *)
(* (frame_id, bbox, window, byte_offset, byte_size) and the same        *)
(* total_bytes as the index the encoder returned; when embedding failed *)
(* the reader finds the sidecar at the path the writer wrote.           *)
C28_IndexRoundTrip ==
    (pc = "encoded" /\ load_status # "none") =>
        /\ load_status = "ok"
        /\ Len(loaded.frames) = Len(spatial_index.frames)
        /\ \A k \in DOMAIN spatial_index.frames :
            /\ loaded.frames[k].frame_id = spatial_index.frames[k].frame_id
            /\ loaded.frames[k].bbox = spatial_index.frames[k].bbox
            /\ loaded.frames[k].window = spatial_index.frames[k].window
            /\ loaded.frames[k].byte_offset = spatial_index.frames[k].byte_offset
            /\ loaded.frames[k].byte_size = spatial_index.frames[k].byte_size
        /\ loaded.total_bytes = spatial_index.total_bytes
        /\ ReadFromSidecar <=> container.embedded = NoIndex

(* An index of several tiles, written to the sidecar and read back. *)
C28_Witness ==
    /\ pc = "encoded"
    /\ load_status = "ok"
    /\ ReadFromSidecar
    /\ Len(loaded.frames) >= 2
    /\ \E k \in DOMAIN loaded.frames :
        loaded.frames[k].window.col_off # loaded.frames[k].window.row_off

----------------------------------------------------------------------------
(* The bounds attribute of an encoded container *)

(* The least and the greatest of a non-empty set of numbers. *)
SetMin(S) == CHOOSE x \in S : \A y \in S : x <= y
SetMax(S) == CHOOSE x \in S : \A y \in S : x >= y

(* The extent of the tiles fs: (min xmin, min ymin, max xmax, max ymax). *)
TilesExtent(fs) ==
    << SetMin({fs[k].bbox[1] : k \in DOMAIN fs}),
       SetMin({fs[k].bbox[2] : k \in DOMAIN fs}),
       SetMax({fs[k].bbox[3] : k \in DOMAIN fs}),
       SetMax({fs[k].bbox[4] : k \in DOMAIN fs}) >>

(* C29: the bounds attribute that encode_spatial_flac embeds is the   *)
(* extent of the whole dataset, (min xmin, min ymin, max xmax, max    *)
(* ymax) over all tile bboxes, for every tile grid, and it satisfies  *)
(* xmin < xmax and ymin < ymax on a north-up raster.                  *)
C29_BoundsAreExtent ==
    (pc = "encoded" /\ container.embedded # NoIndex) =>
        LET bounds == container.embedded.bounds
        IN  /\ bounds = TilesExtent(spatial_index.frames)
            /\ bounds[1] < bounds[3]
            /\ bounds[2] < bounds[4]

----------------------------------------------------------------------------
(* encode_spatial_flac called again on the same SpatialFLACEncoder *)

(* self.frames.clear() in place of line 170: the list the earlier index *)
(* holds is the one emptied.                                            *)
encoder_reset_in_place(written, fs, idx) ==
    [bytes_written |-> 0, frames |-> <<>>,
     index |-> [idx EXCEPT !.frames = <<>>]]

(* Lines 169-170: self.bytes_written = 0 and self.frames = [], a new   *)
(* list; idx, the index an earlier call returned, keeps the list it    *)
(* was built on.                                                       *)
encoder_reset(written, fs, idx) ==
    [bytes_written |-> 0, frames |-> <<>>, index |-> idx]

(* Lines 153-170 in a second call, on a raster of its own with sides   *)
(* from H and W: the encoder keeps its tile_size, which is not 0 since *)
(* the first call planned its tiles with it; the caller of the first   *)
(* call holds its index.                                               *)
EncodeAgainIn(H, W) ==
    /\ pc = "encoded"
    /\ first_index = NoIndex
    /\ raster_opened' = TRUE
    /\ \E h \in H, w \in W :
        /\ TileCount(h, w, tile_size) <= MaxTiles
        /\ height' = h
        /\ width' = w
        /\ tiles' = calculate_tiles(h, w, tile_size)
    /\ LET reset == encoder_reset(bytes_written, frames, spatial_index)
       IN  /\ bytes_written' = reset.bytes_written
           /\ frames' = reset.frames
           /\ first_index' = reset.index
    /\ spatial_index' = NoIndex
    /\ container' = [format |-> "flac", embedded |-> NoIndex,
                     lp_index |-> NoIndex, layout |-> <<>>]
    /\ pc' = "encode_tiles"
    /\ UNCHANGED <<transform, tile_size, quantVars, error, cliVars, sidecar,
                   readerVars, queryVars>>

(* The sides of the two rasters, in cells. *)
AgainSides == 1..2

(* An encoder of one-cell tiles and the raster of its first call. *)
InitAgain ==
    /\ height \in AgainSides
    /\ width \in AgainSides
    /\ tile_size = 1
    /\ transform \in Transforms
    /\ pc = "idle"
    /\ container = NoFile
    /\ sidecar = NoIndex
    /\ InitRest

EncodeAgain == EncodeAgainIn(AgainSides, AgainSides)

NextAgain ==
    \/ EncodeStart
    \/ EncodeTile
    \/ EncodeFinish
    \/ EncodeAgain

SpecAgain == InitAgain /\ [][NextAgain]_vars

(* The second call has returned. *)
SecondReturned == first_index # NoIndex /\ pc = "encoded"

(* The frames fs are the tiles of the raster at hand and nothing else, *)
(* numbered from 0, their payloads laid end to end from offset 0.      *)
OwnTilesFromZero(fs) ==
    LET plan == calculate_tiles(height, width, tile_size)
    IN  /\ Len(fs) = Len(plan)
        /\ \A k \in DOMAIN fs :
            /\ fs[k].frame_id = k - 1
            /\ fs[k].window = Window(plan[k][2], plan[k][1], plan[k][4], plan[k][3])
            /\ fs[k].byte_offset = SumSizes(SubSeq(fs, 1, k - 1))

(* C30: a second encode_spatial_flac call on the same encoder starts   *)
(* from bytes_written = 0 and an empty frame list, its index holds     *)
(* only the second raster's tiles with offsets starting at 0, and the  *)
(* index the first call returned (frames, offsets, sizes, total_bytes) *)
(* is left unchanged by the second call.                               *)
C30_SecondCallFresh ==
    /\ [](SecondReturned =>
            /\ OwnTilesFromZero(spatial_index.frames)
            /\ spatial_index.total_bytes = SumSizes(spatial_index.frames))
    /\ [][/\ (first_index = NoIndex /\ first_index' # NoIndex) =>
                (/\ bytes_written' = 0
                 /\ frames' = <<>>
                 /\ first_index' = spatial_index)
           /\ (first_index # NoIndex => first_index' = first_index)]_vars

(* Two calls have returned indexes of several tiles that differ. *)
C30_Witness ==
    /\ SecondReturned
    /\ Len(first_index.frames) >= 2
    /\ Len(spatial_index.frames) >= 2
    /\ first_index.frames # spatial_index.frames

============================================================================
